---- MODULE Spec2Model ----
(***************************************************************************)
(* Note ingestion pipeline of the Anki MCP bridge: add_notes and           *)
(* add_from_model (anki_mcp/tools/notes.py) together with the field        *)
(* canonicalizer (anki_mcp/services/notes.py) and the media helpers        *)
(* (anki_mcp/services/media.py).                                           *)
(*                                                                         *)
(* Text is modelled as a sequence of tokens.  A token is a piece of plain  *)
(* text ("Q", "A", "x"), whitespace ("s" a blank, "nn" the "\n\n" that     *)
(* ensure_img_tag inserts), a bare URL ("U"), an <a> element ("A(U)"), an  *)
(* embedded data URI ("data:png:G", ...) or an <img> tag ("img:" \o the    *)
(* file name).  The empty string is the empty sequence.                    *)
(***************************************************************************)
EXTENDS Integers, Sequences, FiniteSets, TLC

\* Python's None, for Optional[str] attributes and JSON null.
None == "None"

\* JSON null inside the addNotes response array.
null == "null"

(***************************************************************************)
(* Strings                                                                 *)
(***************************************************************************)

\* str.lower() on the field names used by the model.
Lower(s) ==
    CASE s \in {"Front", "front", "FRONT"} -> "front"
      [] s \in {"Back", "back"} -> "back"
      [] s \in {"Text", "text"} -> "text"
      [] s \in {"Sources", "sources"} -> "sources"
      [] s \in {"Extra", "extra"} -> "extra"
      [] s \in {"Nope", "nope"} -> "nope"
      [] OTHER -> s

\* The field names in the order Python's sorted() gives them (code points:
\* upper case sorts before lower case).
KeyOrder ==
    << "Back", "Extra", "FRONT", "Front", "Nope", "Sources", "Text",
       "back", "extra", "front", "nope", "sources", "text" >>

RECURSIVE SelectInOrder(_, _)
SelectInOrder(order, S) ==
    IF order = <<>> THEN <<>>
    ELSE IF Head(order) \in S
         THEN <<Head(order)>> \o SelectInOrder(Tail(order), S)
         ELSE SelectInOrder(Tail(order), S)

\* sorted(keys) for a list of distinct keys.
Sorted(keys) == SelectInOrder(KeyOrder, {keys[i] : i \in 1..Len(keys)})

Range(seq) == {seq[i] : i \in 1..Len(seq)}

IsSpace(tok) == tok \in {"s", "nn"}

RECURSIVE RStrip(_)
RStrip(text) ==
    IF text = <<>> THEN <<>>
    ELSE IF IsSpace(text[Len(text)])
         THEN RStrip(SubSeq(text, 1, Len(text) - 1))
         ELSE text

RECURSIVE LStrip(_)
LStrip(text) ==
    IF text = <<>> THEN <<>>
    ELSE IF IsSpace(Head(text)) THEN LStrip(Tail(text)) ELSE text

\* str.strip()
Strip(text) == LStrip(RStrip(text))

(***************************************************************************)
(* services/notes.py: the field canonicalizer                              *)
(***************************************************************************)

\* A user field mapping is a Python dict: a sequence of [k, v] items with
\* distinct keys, in insertion order.
UserKeys(user_fields) == [i \in 1..Len(user_fields) |-> user_fields[i].k]

\* user_fields.get(key, "")
UserGet(user_fields, key) ==
    IF \E i \in 1..Len(user_fields) : user_fields[i].k = key
    THEN user_fields[CHOOSE i \in 1..Len(user_fields) : user_fields[i].k = key].v
    ELSE <<>>

\* lower_map = {key.lower(): key for key in user_fields.keys()}; .get(name):
\* a later key overwrites an earlier one with the same lower-cased form.
LowerMapGet(user_fields, name) ==
    LET hits == {i \in 1..Len(user_fields) : Lower(user_fields[i].k) = name}
    IN  IF hits = {} THEN None
        ELSE user_fields[CHOOSE i \in hits : \A j \in hits : j <= i].k

\* The key matched to one model field, or None (a falsy key never matches).
MatchedKey(user_fields, model_field) ==
    LET key == LowerMapGet(user_fields, Lower(model_field))
    IN  IF key # None /\ key # "" THEN key ELSE None

\* Mutant: the unknown user keys are copied into the canonical map.
NormalizedFieldsKeepUnknown(user_fields, model_fields) ==
    [f \in Range(model_fields) \cup Range(UserKeys(user_fields)) |->
        IF f \in Range(model_fields) /\ MatchedKey(user_fields, f) # None
        THEN UserGet(user_fields, MatchedKey(user_fields, f))
        ELSE IF f \in Range(model_fields) THEN <<>>
        ELSE UserGet(user_fields, f)]

\* normalized: every model field, with the matched user value or "".
NormalizedFields(user_fields, model_fields) ==
    [f \in Range(model_fields) |->
        IF MatchedKey(user_fields, f) # None
        THEN UserGet(user_fields, MatchedKey(user_fields, f))
        ELSE <<>>]

\* matched_keys, in model field order.
MatchedKeys(user_fields, model_fields) ==
    SelectSeq([i \in 1..Len(model_fields) |->
                  MatchedKey(user_fields, model_fields[i])],
              LAMBDA key : key # None)

\* Mutant: no user key is ever reported as unknown.
UnknownFieldsNone(user_fields, model_fields) == <<>>

\* Mutant: every user key is reported as unknown, matched or not.
UnknownFieldsAll(user_fields, model_fields) ==
    Sorted(UserKeys(user_fields))

\* sorted(unknown_fields)
UnknownFields(user_fields, model_fields) ==
    Sorted(SelectSeq(UserKeys(user_fields),
                     LAMBDA key : key \notin Range(MatchedKeys(user_fields, model_fields))))

normalize_fields_for_model(user_fields, model_fields) ==
    [ normalized |-> NormalizedFields(user_fields, model_fields),
      matched_count |-> Len(MatchedKeys(user_fields, model_fields)),
      unknown_fields |-> UnknownFields(user_fields, model_fields) ]

\* Mutant: "and" for "or": a note is rejected only when nothing matched and
\* the primary field is empty.
ValidateNeedsBoth(user_fields, model_fields) ==
    LET n == normalize_fields_for_model(user_fields, model_fields)
    IN  IF model_fields = <<>>
        THEN [ok |-> FALSE, msg |-> "Model has no fields configured"]
        ELSE IF n.matched_count = 0 /\ n.normalized[model_fields[1]] = <<>>
        THEN [ok |-> FALSE, msg |-> "Unknown note fields",
              provided |-> n.unknown_fields, expected |-> model_fields,
              required |-> model_fields[1]]
        ELSE [ok |-> TRUE, fields |-> n.normalized]

\* Mutant: any unknown user key is rejected, not only a missing primary field.
ValidateRejectsUnknown(user_fields, model_fields) ==
    LET n == normalize_fields_for_model(user_fields, model_fields)
    IN  IF model_fields = <<>>
        THEN [ok |-> FALSE, msg |-> "Model has no fields configured"]
        ELSE IF n.unknown_fields # <<>> \/ n.matched_count = 0
                \/ n.normalized[model_fields[1]] = <<>>
        THEN [ok |-> FALSE, msg |-> "Unknown note fields",
              provided |-> n.unknown_fields, expected |-> model_fields,
              required |-> model_fields[1]]
        ELSE [ok |-> TRUE, fields |-> n.normalized]

\* The result of normalize_and_validate_note_fields: the canonical fields, or
\* the ValueError it raises with the parts its message is built from.
normalize_and_validate_note_fields(user_fields, model_fields) ==
    LET n == normalize_fields_for_model(user_fields, model_fields)
    IN  IF model_fields = <<>>
        THEN [ok |-> FALSE, msg |-> "Model has no fields configured"]
        ELSE IF n.matched_count = 0 \/ n.normalized[model_fields[1]] = <<>>
        THEN [ok |-> FALSE, msg |-> "Unknown note fields",
              provided |-> n.unknown_fields, expected |-> model_fields,
              required |-> model_fields[1]]
        ELSE [ok |-> TRUE, fields |-> n.normalized]

(***************************************************************************)
(* services/media.py: markup and data-URI helpers                          *)
(***************************************************************************)

\* IMG_TAG_TEMPLATE.format(src=filename)
build_img_tag(filename) == "img:" \o filename

\* re.search(src=["']<filename>["'], existing): only an <img> token holds a
\* src attribute.
HasSrc(existing, filename) ==
    \E i \in 1..Len(existing) : existing[i] = build_img_tag(filename)

\* Mutant: the tag is appended whether or not the text already holds it.
EnsureImgTagAlwaysAppends(existing, filename) ==
    IF RStrip(existing) = <<>> THEN <<build_img_tag(filename)>>
    ELSE RStrip(existing) \o <<"nn", build_img_tag(filename)>>

ensure_img_tag(existing, filename) ==
    IF HasSrc(existing, filename) THEN existing
    ELSE IF RStrip(existing) = <<>> THEN <<build_img_tag(filename)>>
    ELSE RStrip(existing) \o <<"nn", build_img_tag(filename)>>

\* auto_link_urls: a bare URL becomes an <a> element; a URL inside an
\* existing <a> element ("A(U)") is left alone.
auto_link_urls(text) ==
    [i \in 1..Len(text) |-> IF text[i] = "U" THEN "A(U)" ELSE text[i]]

ext_from_mime(mime_subtype) ==
    LET subtype == Lower(mime_subtype)
    IN  CASE subtype \in {"jpeg", "jpg", "pjpeg"} -> "jpg"
          [] subtype \in {"png", "x-png"} -> "png"
          [] subtype \in {"webp"} -> "webp"
          [] subtype \in {"gif"} -> "gif"
          [] OTHER -> "png"

\* The data URIs of the model, as DATA_URL_RE splits them: group(1) the
\* mime subtype, group(2) the payload.  inline: DATA_URL_INLINE_RE finds the
\* URI inside a text (its payload starts with a base64 character).
DataUrlTokens == {"data:png:G", "data:jpeg:H", "data:png:bad", "data:gif: G"}

DataUrlParts(tok) ==
    CASE tok = "data:png:G" -> [subtype |-> "png", payload |-> "b64:G", inline |-> TRUE]
      [] tok = "data:jpeg:H" -> [subtype |-> "jpeg", payload |-> "b64:H", inline |-> TRUE]
      [] tok = "data:png:bad" -> [subtype |-> "png", payload |-> "b64bad", inline |-> TRUE]
      [] tok = "data:gif: G" -> [subtype |-> "gif", payload |-> " b64:G", inline |-> FALSE]

\* base64.b64decode(payload.strip(), validate=True): the bytes, or None when
\* the payload is not valid base64.
B64Decode(payload) ==
    CASE payload \in {"b64:G", " b64:G"} -> "G"
      [] payload = "b64:H" -> "H"
      [] OTHER -> None

\* base64.b64encode(raw)
B64Encode(raw) == "b64:" \o raw

\* Mutant: any payload is taken for valid base64.
SanitizeNeverFails(payload) ==
    [ok |-> TRUE, clean_b64 |-> "b64:" \o payload, ext |-> None]

\* sanitize_image_payload: [ok, clean_b64, ext] (ext None for bare base64);
\* ok = FALSE stands for the ValueError.
sanitize_image_payload(payload) ==
    IF payload = "" THEN [ok |-> FALSE, msg |-> "image payload is empty"]
    ELSE IF payload \in DataUrlTokens
    THEN LET parts == DataUrlParts(payload)
             raw == B64Decode(parts.payload)
         IN  IF raw = None THEN [ok |-> FALSE, msg |-> "invalid base64 image data"]
             ELSE [ok |-> TRUE, clean_b64 |-> B64Encode(raw),
                   ext |-> ext_from_mime(parts.subtype)]
    ELSE LET raw == B64Decode(payload)
         IN  IF raw = None THEN [ok |-> FALSE, msg |-> "invalid base64 image data"]
             ELSE [ok |-> TRUE, clean_b64 |-> B64Encode(raw), ext |-> None]

\* hashlib.sha1(raw).hexdigest()
Sha1(raw) == "sha1" \o raw

(***************************************************************************)
(* services/media.py: process_data_urls_in_fields                          *)
(***************************************************************************)

\* One remote call as the AnkiConnect server (or the image host) sees it.
\* index is the position of the note it was made for (-1: none).
Call(action, arg, data, index) ==
    [action |-> action, arg |-> arg, data |-> data, index |-> index]

\* list(DATA_URL_INLINE_RE.finditer(value)): the spans of the embedded URIs.
InlineMatches(value) ==
    LET pos == SelectSeq([i \in 1..Len(value) |-> i],
                         LAMBDA i : value[i] \in DataUrlTokens
                                    /\ DataUrlParts(value[i]).inline)
    IN  [j \in 1..Len(pos) |-> [first |-> pos[j], last |-> pos[j]]]

\* DATA_URL_RE.match(trimmed): the whole trimmed value when it starts with a
\* data URI and holds no line break.
WholeMatches(trimmed) ==
    IF trimmed # <<>> /\ Head(trimmed) \in DataUrlTokens
       /\ \A i \in 1..Len(trimmed) : trimmed[i] # "nn"
    THEN << [first |-> 1, last |-> Len(trimmed)] >>
    ELSE <<>>

\* match.group(0): a URI followed by more text is one string whose payload
\* is no base64.
MatchText(value, m) ==
    IF m.first = m.last THEN value[m.first] ELSE "data:+text"

RECURSIVE ProcessMatches(_, _, _, _, _, _)
ProcessMatches(value, matches, key, note_index, storeOk, acc) ==
    IF matches = <<>> THEN acc
    ELSE
      LET m == Head(matches)
          clean == sanitize_image_payload(MatchText(value, m))
          filename == "img_" \o Sha1(B64Decode(clean.clean_b64)) \o "." \o clean.ext
          stored == clean.ok /\ storeOk[acc.n + 1]
          kept == [acc EXCEPT
                     !.rebuilt = @ \o SubSeq(value, acc.cursor + 1, m.last),
                     !.cursor = m.last,
                     !.results = Append(@,
                        [index |-> note_index,
                         warn |-> "data_url_failed:" \o key])]
      IN  ProcessMatches(value, Tail(matches), key, note_index, storeOk,
            IF ~clean.ok THEN kept
            ELSE IF ~stored
            THEN [kept EXCEPT
                    !.calls = Append(@, Call("storeMediaFile", filename,
                                             clean.clean_b64, note_index)),
                    !.n = @ + 1]
            ELSE [acc EXCEPT
                    !.rebuilt = @ \o SubSeq(value, acc.cursor + 1, m.first - 1),
                    !.cursor = m.last,
                    !.saved = Append(@, filename),
                    !.results = Append(@,
                       [index |-> note_index,
                        info |-> "data_url_saved:" \o key \o "->" \o filename]),
                    !.calls = Append(@, Call("storeMediaFile", filename,
                                             clean.clean_b64, note_index)),
                    !.n = @ + 1])

\* Mutant: the stored files get no img tag.
EnsureTagsSkips(text, saved_files) == text

RECURSIVE EnsureTags(_, _)
EnsureTags(text, saved_files) ==
    IF saved_files = <<>> THEN text
    ELSE EnsureTags(ensure_img_tag(text, Head(saved_files)), Tail(saved_files))

\* The body of the loop over fields.items() for one key.  st holds the
\* fields, the details appended so far, the calls issued and their count.
ProcessOneField(st, key, note_index, storeOk) ==
    LET raw == st.fields[key]
        inline == InlineMatches(raw)
        value == IF inline = <<>> /\ WholeMatches(Strip(raw)) # <<>>
                 THEN Strip(raw) ELSE raw
        matches == IF inline # <<>> THEN inline ELSE WholeMatches(Strip(raw))
        acc == ProcessMatches(value, matches, key, note_index, storeOk,
                 [rebuilt |-> <<>>, cursor |-> 0, saved |-> <<>>,
                  results |-> st.results, calls |-> st.calls, n |-> st.n])
        new_value == acc.rebuilt \o SubSeq(value, acc.cursor + 1, Len(value))
    IN  IF matches = <<>> THEN st
        ELSE [fields |-> [st.fields EXCEPT
                            ![key] = EnsureTags(Strip(new_value), acc.saved)],
              results |-> acc.results, calls |-> acc.calls, n |-> acc.n]

RECURSIVE ProcessFields(_, _, _, _)
ProcessFields(st, keys, note_index, storeOk) ==
    IF keys = <<>> THEN st
    ELSE ProcessFields(ProcessOneField(st, Head(keys), note_index, storeOk),
                       Tail(keys), note_index, storeOk)

\* process_data_urls_in_fields(fields, results, note_index); keys is the
\* dict's key order, storeOk[k] says whether the k-th storeMediaFile call
\* succeeds.  Returns the new fields and what was appended to results and
\* to the calls.
process_data_urls_in_fields(flds, keys, note_index, storeOk) ==
    ProcessFields([fields |-> flds, results |-> <<>>, calls |-> <<>>, n |-> 0],
                  keys, note_index, storeOk)

\* The number of storeMediaFile calls process_data_urls_in_fields can issue.
CountDataUrls(flds) ==
    LET RECURSIVE Sum(_)
        Sum(S) == IF S = {} THEN 0
                  ELSE LET f == CHOOSE f \in S : TRUE
                       IN  Len(SelectSeq(flds[f], LAMBDA t : t \in DataUrlTokens))
                           + Sum(S \ {f})
    IN  Sum(DOMAIN flds)

(***************************************************************************)
(* The requests: NoteInput, ImageSpec, AddNotesArgs                        *)
(***************************************************************************)

\* The longest batch of the model.
MaxNotes == 2

\* config.DEFAULT_DECK / config.DEFAULT_MODEL (environment values).
DEFAULT_DECK == "Default"

DEFAULT_MODEL == "Basic"

\* The field lists the AnkiConnect server holds for its models.
ModelSchema(model_name) ==
    CASE model_name = "Basic" -> <<"Front", "Back">>
      [] model_name = "Cloze" -> <<"Text", "Sources">>
      [] OTHER -> <<>>

\* The id the server gives the note created at position i of an addNotes
\* call ("111", "112", ...): a fresh id per note.
NoteIdAt(i) == ToString(110 + i)

ImageSpec(image_base64, image_url, target_field, filename) ==
    [image_base64 |-> image_base64, image_url |-> image_url,
     target_field |-> target_field, filename |-> filename]

\* kind: "NoteInput" for a typed note; add_from_model also takes a "dict"
\* (flat field keys beside the reserved ones) and rejects anything "other".
NoteInput(kind, flds, tags, images, dedup_key, deck, model_name) ==
    [kind |-> kind, fields |-> flds, tags |-> tags, images |-> images,
     dedup_key |-> dedup_key, deck |-> deck, model |-> model_name]

Item(k, v) == [k |-> k, v |-> v]

\* Typed notes.
TypedNotes ==
    { NoteInput("NoteInput", <<Item("Front", <<"Q">>), Item("Back", <<"A">>)>>,
                <<"t1">>, <<>>, "k1", None, None),
      NoteInput("NoteInput", <<Item("front", <<"Q">>), Item("extra", <<"x">>)>>,
                <<>>, <<>>, None, "Special", None),
      NoteInput("NoteInput", <<Item("back", <<"A">>)>>,
                <<>>, <<>>, "k2", None, None),
      NoteInput("NoteInput", <<Item("Text", <<"Q">>), Item("sources", <<"U", "s", "A(U)">>)>>,
                <<>>, <<>>, None, "Special", "Cloze"),
      NoteInput("NoteInput",
                <<Item("Front", <<"Q", "data:png:G", "s">>), Item("Back", <<"data:png:bad">>)>>,
                <<>>, <<>>, "k2", None, None),
      NoteInput("NoteInput", <<Item("Front", <<"Q">>)>>, <<>>,
                <<ImageSpec("b64:G", None, "back", "pic.png"),
                  ImageSpec(None, "http://img", "Front", None)>>,
                "k1", "Special", None),
      NoteInput("NoteInput", <<Item("FRONT", <<"Q">>)>>, <<>>,
                <<ImageSpec("bad", None, "Back", None),
                  ImageSpec(None, None, "Back", None),
                  ImageSpec("data:jpeg:H", None, "Nope", None)>>,
                None, None, None),
      NoteInput("NoteInput", <<Item("Front", <<"Q">>)>>, <<>>,
                <<ImageSpec("bad", None, "Nope", None)>>,
                None, None, None),
      NoteInput("NoteInput", <<Item("Front", <<"Q">>)>>,
                <<>>, <<>>, None, None, "Empty") }

\* What add_from_model may be handed besides typed notes.
RawItems ==
    { NoteInput("dict", <<Item("Front", <<"Q">>)>>, <<>>, <<>>, "k2", "Special", None),
      NoteInput("dict", <<>>, <<"t1">>, <<>>, None, None, None),
      NoteInput("other", <<>>, <<>>, <<>>, None, None, None) }

SeqsUpTo(S, n) == UNION {[1..k -> S] : k \in 0..n}

\* The longest field mapping handed to the canonicalizer on its own.
MaxUserKeys == 2

\* Field mappings with distinct keys, in every insertion order.
UserFieldMaps ==
    { m \in SeqsUpTo({Item(k, v) : k \in {"Front", "front", "Back", "extra"},
                                   v \in {<<>>, <<"Q">>, <<"x">>, <<"s">>}}, MaxUserKeys) :
        \A i, j \in 1..Len(m) : m[i].k = m[j].k => i = j }

\* Calls of normalize_and_validate_note_fields(user_fields, model_fields).
NormalizeRequests ==
    { [entry |-> "normalize_and_validate_note_fields",
       user_fields |-> u, model_fields |-> f] :
        u \in UserFieldMaps,
        f \in {<<"Front", "Back">>, <<"Back">>, <<"Text", "Sources">>, <<>>} }

\* AddNotesArgs: deck and model are filled in (default_factory), notes holds
\* at least one NoteInput.
AddNotesRequests ==
    { [entry |-> "add_notes", deck |-> "Deck", model |-> DEFAULT_MODEL,
       items_given |-> TRUE, items |-> notes] :
        notes \in SeqsUpTo(TypedNotes, MaxNotes) \ {<<>>} }

\* add_from_model(deck, model, items): every argument may be missing.
AddFromModelRequests ==
    { [entry |-> "add_from_model", deck |-> None, model |-> None,
       items_given |-> FALSE, items |-> <<>>] }
    \cup
    { [entry |-> "add_from_model", deck |-> dm[1], model |-> dm[2],
       items_given |-> TRUE, items |-> items] :
        dm \in {<<None, None>>, <<"Deck", "Basic">>},
        items \in SeqsUpTo(TypedNotes \cup RawItems, MaxNotes) }

(***************************************************************************)
(* tools/notes.py: add_notes and add_from_model                            *)
(***************************************************************************)

VARIABLES
    request,                    \* the arguments of the invocation
    pc,                         \* where the coroutine stands
    outcome,                    \* "running", "returned" or "raised"
    error,                      \* the exception raised, [type |-> "none"] if none
    normalized_notes,           \* normalized_notes / normalized_items
    decks_to_create,            \* the set of decks to pre-create
    decks_pending,              \* what the loop over decks_to_create has left
    model_fields_cache,         \* model name -> field list
    canonical_field_map_cache,  \* model name -> (lower-cased name -> name)
    index,                      \* enumerate(normalized_notes), from 0
    fields,                     \* the canonical fields of the current note
    img,                        \* images of the current note already handled
    notes_payload,              \* the payloads built so far
    results,                    \* the detail records
    added,
    skipped,
    response,                   \* what the addNotes call came back with
    calls                       \* every remote call issued, in order

vars ==
    << request, pc, outcome, error, normalized_notes, decks_to_create,
       decks_pending, model_fields_cache, canonical_field_map_cache, index,
       fields, img, notes_payload, results, added, skipped, response, calls >>

NoError == [type |-> "none"]

\* The addNotes call has not come back.  Later kind is "error" (the call
\* raised), "notlist" (a result that cannot be enumerated) or "list".
NoResponse == [kind |-> "none", value |-> <<>>]

\* deck = deck or config.DEFAULT_DECK; model = model or config.DEFAULT_MODEL
Deck == IF request.deck # None THEN request.deck ELSE DEFAULT_DECK

Model == IF request.model # None THEN request.model ELSE DEFAULT_MODEL

\* The note of the current loop iteration and its effective deck and model.
Note == normalized_notes[index + 1]

NoteDeck(note) == IF note.deck # None THEN note.deck ELSE Deck

NoteModel(note) == IF note.model # None THEN note.model ELSE Model

InitWith(requests) ==
    /\ request \in requests
    /\ pc = "start"
    /\ outcome = "running"
    /\ error = NoError
    /\ normalized_notes = <<>>
    /\ decks_to_create = {}
    /\ decks_pending = {}
    /\ model_fields_cache = <<>>
    /\ canonical_field_map_cache = <<>>
    /\ index = 0
    /\ fields = <<>>
    /\ img = 0
    /\ notes_payload = <<>>
    /\ results = <<>>
    /\ added = 0
    /\ skipped = 0
    /\ response = NoResponse
    /\ calls = <<>>

Init == InitWith(AddNotesRequests \cup AddFromModelRequests)

\* raise: the coroutine ends with an exception.
Raise(exc) ==
    /\ pc' = "done"
    /\ outcome' = "raised"
    /\ error' = exc

\* Mutant: the notes' own decks are forgotten.
DecksOfDefaultOnly(default_deck, notes) == {default_deck}

\* The set decks_to_create built from the default deck and the notes' decks.
DecksOf(default_deck, notes) ==
    {default_deck} \cup {notes[i].deck : i \in {j \in 1..Len(notes) : notes[j].deck # None}}

\* Where the code goes after the loop over decks_to_create.
LoopEntry(notes) == IF Len(notes) = 0 THEN "addNotes" ELSE "ensureModel"

\* add_notes, up to the loop over decks_to_create.
AddNotesBegin ==
    /\ pc = "start"
    /\ request.entry = "add_notes"
    /\ normalized_notes' = request.items
    /\ decks_to_create' = DecksOf(request.deck, request.items)
    /\ decks_pending' = DecksOf(request.deck, request.items)
    /\ pc' = "createDecks"
    /\ UNCHANGED << request, outcome, error, model_fields_cache,
                    canonical_field_map_cache, index, fields, img,
                    notes_payload, results, added, skipped, response, calls >>

\* add_from_model: items is None -> ValueError.
AddFromModelBegin ==
    /\ pc = "start"
    /\ request.entry = "add_from_model"
    /\ IF ~request.items_given
       THEN Raise([type |-> "ValueError", msg |-> "items must be provided"])
       ELSE /\ pc' = "createDefaultDeck"
            /\ UNCHANGED << outcome, error >>
    /\ UNCHANGED << request, normalized_notes, decks_to_create, decks_pending,
                    model_fields_cache, canonical_field_map_cache, index,
                    fields, img, notes_payload, results, added, skipped,
                    response, calls >>

\* add_from_model: await anki_call("createDeck", {"deck": deck}), before the
\* items are looked at.
CreateDefaultDeck ==
    /\ pc = "createDefaultDeck"
    /\ calls' = Append(calls, Call("createDeck", Deck, None, -1))
    /\ \E ok \in BOOLEAN :
         IF ok THEN /\ pc' = "normalizeItems"
                    /\ UNCHANGED << outcome, error >>
         ELSE Raise([type |-> "RuntimeError", msg |-> "Anki error"])
    /\ UNCHANGED << request, normalized_notes, decks_to_create, decks_pending,
                    model_fields_cache, canonical_field_map_cache, index,
                    fields, img, notes_payload, results, added, skipped,
                    response >>

\* The first item add_from_model cannot turn into a NoteInput, 0 if none.
FirstBadItem(items) ==
    LET bad == {i \in 1..Len(items) :
                  \/ items[i].kind = "other"
                  \/ items[i].kind = "dict" /\ items[i].fields = <<>>}
    IN  IF bad = {} THEN 0 ELSE CHOOSE i \in bad : \A j \in bad : i <= j

\* add_from_model: the loop that turns the items into NoteInput objects.
NormalizeItems ==
    /\ pc = "normalizeItems"
    /\ LET bad == FirstBadItem(request.items)
       IN  IF bad # 0
           THEN /\ Raise(IF request.items[bad].kind = "other"
                         THEN [type |-> "TypeError", msg |-> "items must be NoteInput or dict"]
                         ELSE [type |-> "ValueError", msg |-> "note without fields"])
                /\ UNCHANGED << normalized_notes, decks_to_create, decks_pending >>
           ELSE /\ normalized_notes' =
                     [i \in 1..Len(request.items) |->
                        [request.items[i] EXCEPT !.kind = "NoteInput"]]
                /\ decks_to_create' = DecksOf(Deck, request.items)
                /\ decks_pending' = DecksOf(Deck, request.items)
                /\ pc' = "createDecks"
                /\ UNCHANGED << outcome, error >>
    /\ UNCHANGED << request, model_fields_cache, canonical_field_map_cache,
                    index, fields, img, notes_payload, results, added,
                    skipped, response, calls >>

\* for deck_name in decks_to_create: await anki_call("createDeck", ...).
\* A set is walked in an order the code does not fix.
CreateDeck ==
    /\ pc = "createDecks"
    /\ \E deck_name \in decks_pending :
         /\ calls' = Append(calls, Call("createDeck", deck_name, None, -1))
         /\ decks_pending' = decks_pending \ {deck_name}
         /\ \E ok \in BOOLEAN :
              IF ok THEN /\ pc' = IF decks_pending = {deck_name}
                                  THEN LoopEntry(normalized_notes)
                                  ELSE "createDecks"
                         /\ UNCHANGED << outcome, error >>
              ELSE Raise([type |-> "RuntimeError", msg |-> "Anki error"])
    /\ UNCHANGED << request, normalized_notes, decks_to_create,
                    model_fields_cache, canonical_field_map_cache, index,
                    fields, img, notes_payload, results, added, skipped,
                    response >>

\* {field.lower(): field for field in fields}: a later field overwrites an
\* earlier one with the same lower-cased name.
CanonicalFieldMap(flds) ==
    [low \in {Lower(flds[i]) : i \in 1..Len(flds)} |->
        flds[CHOOSE i \in 1..Len(flds) :
               /\ Lower(flds[i]) = low
               /\ \A j \in 1..Len(flds) : Lower(flds[j]) = low => j <= i]]

\* Mutant: the cache is never consulted.
NotCachedAlways(cache, model_name) == TRUE

\* cached_fields = model_fields_cache.get(model_name); cached_fields is None
NotCached(cache, model_name) == model_name \notin DOMAIN cache

\* model_fields_cache[model_name] = fields
CacheFields(cache, model_name, flds) == (model_name :> flds) @@ cache

\* _ensure_model_context: one modelFieldNames call for a model the cache does
\* not hold yet, none otherwise.
EnsureModelContext ==
    /\ pc = "ensureModel"
    /\ LET model_name == NoteModel(Note)
       IN  \/ /\ ~NotCached(model_fields_cache, model_name)
              /\ pc' = "validate"
              /\ UNCHANGED << outcome, error, model_fields_cache,
                              canonical_field_map_cache, calls >>
           \/ /\ NotCached(model_fields_cache, model_name)
              /\ calls' = Append(calls, Call("modelFieldNames", model_name, None, index))
              /\ \E ok \in BOOLEAN :
                   IF ok
                   THEN /\ model_fields_cache' =
                             CacheFields(model_fields_cache, model_name,
                                         ModelSchema(model_name))
                        /\ canonical_field_map_cache' =
                             (model_name :> CanonicalFieldMap(ModelSchema(model_name)))
                                @@ canonical_field_map_cache
                        /\ pc' = "validate"
                        /\ UNCHANGED << outcome, error >>
                   ELSE /\ Raise([type |-> "RuntimeError", msg |-> "Anki error"])
                        /\ UNCHANGED << model_fields_cache, canonical_field_map_cache >>
    /\ UNCHANGED << request, normalized_notes, decks_to_create, decks_pending,
                    index, fields, img, notes_payload, results, added,
                    skipped, response >>

\* The locals model_fields and canonical_field_map of the loop body.
ModelFields == model_fields_cache[NoteModel(Note)]

CanonicalMap == canonical_field_map_cache[NoteModel(Note)]

\* for field_name, value in fields.items(): "sources" fields get their URLs
\* linked.
AutoLinkSources(flds) ==
    [f \in DOMAIN flds |->
        IF Lower(f) = "sources" THEN auto_link_urls(flds[f]) ELSE flds[f]]

\* normalize_and_validate_note_fields on the current note, then the
\* auto-linking of its sources field.
Validate ==
    /\ pc = "validate"
    /\ LET r == normalize_and_validate_note_fields(Note.fields, ModelFields)
       IN  IF r.ok
           THEN /\ fields' = AutoLinkSources(r.fields)
                /\ pc' = "dataUrls"
                /\ UNCHANGED << outcome, error >>
           ELSE /\ Raise([type |-> "ValueError"] @@ r)
                /\ UNCHANGED fields
    /\ UNCHANGED << request, normalized_notes, decks_to_create, decks_pending,
                    model_fields_cache, canonical_field_map_cache, index, img,
                    notes_payload, results, added, skipped, response, calls >>

\* await media_services.process_data_urls_in_fields(fields, results, index)
ProcessDataUrls ==
    /\ pc = "dataUrls"
    /\ \E storeOk \in [1..CountDataUrls(fields) -> BOOLEAN] :
         LET r == process_data_urls_in_fields(fields, ModelFields, index, storeOk)
         IN  /\ fields' = r.fields
             /\ results' = results \o r.results
             /\ calls' = calls \o r.calls
    /\ img' = 0
    /\ pc' = "images"
    /\ UNCHANGED << request, outcome, error, normalized_notes, decks_to_create,
                    decks_pending, model_fields_cache, canonical_field_map_cache,
                    index, notes_payload, added, skipped, response >>

\* uuid.uuid4().hex: a name no other image of the invocation gets.
Uuid(note_index, image_pos) ==
    "uuid" \o ToString(note_index) \o "_" \o ToString(image_pos)

Truthy(s) == s # None /\ s # ""

\* Mutant: the target field of an image is not looked up before the store.
KnownTargetAlways(canonical_field_map, target_field) == TRUE

\* canonical_target = canonical_field_map.get(img.target_field.lower());
\* "if not canonical_target" fails.
KnownTarget(canonical_field_map, target_field) ==
    Lower(target_field) \in DOMAIN canonical_field_map

\* Mutant: add_notes treats an unknown target field as add_from_model does.
StrictTargetNever == FALSE

\* add_notes raises on an unknown image target field, add_from_model warns.
StrictTarget == request.entry = "add_notes"

\* One turn of "for img in note.images".  fetched: whether the download of
\* image_url succeeds; stored: whether storeMediaFile succeeds.
ProcessImage ==
    /\ pc = "images"
    /\ img < Len(Note.images)
    /\ \E fetched \in BOOLEAN, stored \in BOOLEAN :
         LET im == Note.images[img + 1]
             inline == Truthy(im.image_base64)
             remote == ~inline /\ Truthy(im.image_url)
             clean == sanitize_image_payload(im.image_base64)
             warning == IF inline THEN (IF clean.ok THEN None
                                        ELSE "invalid_image_base64")
                        ELSE IF remote THEN (IF fetched THEN None
                                             ELSE "fetch_image_failed")
                        ELSE "no_image_provided"
             data_b64 == IF inline THEN clean.clean_b64 ELSE "b64:" \o im.image_url
             ext_hint == IF inline THEN clean.ext ELSE None
             filename == IF Truthy(im.filename) THEN im.filename
                         ELSE Uuid(index, img) \o "."
                                \o (IF Truthy(ext_hint) THEN ext_hint ELSE "jpg")
             low == Lower(im.target_field)
             known == KnownTarget(CanonicalMap, im.target_field)
             canonical_target == IF low \in DOMAIN CanonicalMap
                                 THEN CanonicalMap[low] ELSE None
             fetch_call == IF remote
                           THEN <<Call("fetchImage", im.image_url, None, index)>>
                           ELSE <<>>
             store_call == <<Call("storeMediaFile", filename, data_b64, index)>>
         IN  IF warning # None
             THEN /\ results' = Append(results, [index |-> index, warn |-> warning])
                  /\ calls' = calls \o fetch_call
                  /\ img' = img + 1
                  /\ UNCHANGED << pc, outcome, error, fields >>
             ELSE IF ~known /\ StrictTarget
             THEN /\ Raise([type |-> "ValueError",
                            msg |-> "Unknown image target field",
                            field |-> im.target_field, index |-> index,
                            allowed |-> ModelFields])
                  /\ calls' = calls \o fetch_call
                  /\ UNCHANGED << results, img, fields >>
             ELSE IF ~known
             THEN /\ results' = Append(results,
                        [index |-> index, warn |-> "unknown_target_field",
                         field |-> im.target_field])
                  /\ calls' = calls \o fetch_call
                  /\ img' = img + 1
                  /\ UNCHANGED << pc, outcome, error, fields >>
             ELSE /\ calls' = calls \o fetch_call \o store_call
                  /\ IF stored
                     THEN /\ fields' = [fields EXCEPT ![canonical_target] =
                                          ensure_img_tag(@, filename)]
                          /\ UNCHANGED results
                     ELSE /\ results' = Append(results,
                                [index |-> index, warn |-> "store_media_failed"])
                          /\ UNCHANGED fields
                  /\ img' = img + 1
                  /\ UNCHANGED << pc, outcome, error >>
    /\ UNCHANGED << request, normalized_notes, decks_to_create, decks_pending,
                    model_fields_cache, canonical_field_map_cache, index,
                    notes_payload, added, skipped, response >>

\* notes_payload.append({...}) and the step to the next note.
AppendPayload ==
    /\ pc = "images"
    /\ img = Len(Note.images)
    /\ notes_payload' = Append(notes_payload,
          [deckName |-> NoteDeck(Note), modelName |-> NoteModel(Note),
           fields |-> fields, tags |-> Note.tags,
           options |-> [allowDuplicate |-> FALSE]])
    /\ index' = index + 1
    /\ pc' = IF index + 1 < Len(normalized_notes) THEN "ensureModel" ELSE "addNotes"
    /\ UNCHANGED << request, outcome, error, normalized_notes, decks_to_create,
                    decks_pending, model_fields_cache, canonical_field_map_cache,
                    fields, img, results, added, skipped, response, calls >>

\* Mutant: the null test is inverted, a duplicate is reported as created.
DetailNullIsOk(idx, note_id, dedup_key) ==
    LET detail == IF note_id # null
                  THEN [index |-> idx, status |-> "duplicate"]
                  ELSE [index |-> idx, status |-> "ok", noteId |-> note_id]
    IN  IF dedup_key # None THEN [dedup_key |-> dedup_key] @@ detail ELSE detail

\* Mutant: only a created note echoes its dedup key.
DetailDedupOnlyWhenOk(idx, note_id, dedup_key) ==
    IF note_id = null THEN [index |-> idx, status |-> "duplicate"]
    ELSE IF dedup_key # None
    THEN [index |-> idx, status |-> "ok", noteId |-> note_id, dedup_key |-> dedup_key]
    ELSE [index |-> idx, status |-> "ok", noteId |-> note_id]

\* The detail record for response[idx].
Detail(idx, note_id, dedup_key) ==
    LET detail == IF note_id = null
                  THEN [index |-> idx, status |-> "duplicate"]
                  ELSE [index |-> idx, status |-> "ok", noteId |-> note_id]
    IN  IF dedup_key # None THEN [dedup_key |-> dedup_key] @@ detail ELSE detail

\* for idx, note_id in enumerate(response): the loop runs until the response
\* ends or normalized_notes[idx] raises IndexError.
Enumerated(resp, notes) == IF Len(resp) <= Len(notes) THEN Len(resp) ELSE Len(notes)

ResponseDetails(resp, notes) ==
    [i \in 1..Enumerated(resp, notes) |-> Detail(i - 1, resp[i], notes[i].dedup_key)]

CountNull(resp, n) == Cardinality({i \in 1..n : resp[i] = null})

\* The arrays the server may answer addNotes with: null or a fresh id at
\* each position, and any length up to one more than was asked for.
Responses(notes) ==
    UNION { {resp \in [1..k -> {null} \cup {NoteIdAt(i) : i \in 1..k}] :
               \A i \in 1..k : resp[i] \in {null, NoteIdAt(i)}} :
            k \in 0..(Len(notes) + 1) }

AddNotesFailed == [type |-> "RuntimeError", msg |-> "addNotes_failed"]

\* Mutant: the failure is swallowed and the counts gathered so far returned.
OnAddNotesErrorReturns ==
    /\ pc' = "done"
    /\ outcome' = "returned"
    /\ UNCHANGED error

\* except Exception as exc: raise RuntimeError(f"addNotes_failed: {exc}")
OnAddNotesError == Raise(AddNotesFailed)

\* The single addNotes call and the loop over its response.
AddNotes ==
    /\ pc = "addNotes"
    /\ calls' = Append(calls, Call("addNotes", notes_payload, None, -1))
    /\ \/ /\ response' = [kind |-> "error", value |-> <<>>]
          /\ OnAddNotesError
          /\ UNCHANGED << results, added, skipped >>
       \/ /\ response' = [kind |-> "notlist", value |-> <<>>]
          /\ OnAddNotesError
          /\ UNCHANGED << results, added, skipped >>
       \/ \E resp \in Responses(normalized_notes) :
            LET n == Enumerated(resp, normalized_notes)
            IN  /\ response' = [kind |-> "list", value |-> resp]
                /\ results' = results \o ResponseDetails(resp, normalized_notes)
                /\ skipped' = skipped + CountNull(resp, n)
                /\ added' = added + (n - CountNull(resp, n))
                /\ IF Len(resp) > Len(normalized_notes)
                   THEN OnAddNotesError
                   ELSE /\ pc' = "done"
                        /\ outcome' = "returned"
                        /\ UNCHANGED error
    /\ UNCHANGED << request, normalized_notes, decks_to_create, decks_pending,
                    model_fields_cache, canonical_field_map_cache, index,
                    fields, img, notes_payload >>

Next ==
    \/ AddNotesBegin
    \/ AddFromModelBegin
    \/ CreateDefaultDeck
    \/ NormalizeItems
    \/ CreateDeck
    \/ EnsureModelContext
    \/ Validate
    \/ ProcessDataUrls
    \/ ProcessImage
    \/ AppendPayload
    \/ AddNotes

Spec == Init /\ [][Next]_vars

(***************************************************************************)
(* The canonicalizer called on its own                                     *)
(***************************************************************************)

InitNormalize == InitWith(NormalizeRequests)

\* fields = normalize_and_validate_note_fields(user_fields, model_fields)
NormalizeAndValidate ==
    /\ pc = "start"
    /\ request.entry = "normalize_and_validate_note_fields"
    /\ LET r == normalize_and_validate_note_fields(request.user_fields,
                                                   request.model_fields)
       IN  IF r.ok
           THEN /\ fields' = r.fields
                /\ pc' = "done"
                /\ outcome' = "returned"
                /\ UNCHANGED error
           ELSE /\ Raise([type |-> "ValueError"] @@ r)
                /\ UNCHANGED fields
    /\ UNCHANGED << request, normalized_notes, decks_to_create, decks_pending,
                    model_fields_cache, canonical_field_map_cache, index, img,
                    notes_payload, results, added, skipped, response, calls >>

SpecNormalize == InitNormalize /\ [][NormalizeAndValidate]_vars

(***************************************************************************)
(* normalize_fields_for_model applied to its own output                    *)
(***************************************************************************)

\* Calls of normalize_fields_for_model(user_fields, model_fields).
CanonicalizeRequests ==
    { [entry |-> "normalize_fields_for_model",
       user_fields |-> u, model_fields |-> f] :
        u \in UserFieldMaps,
        f \in {<<"Front", "Back">>, <<"Back">>, <<"Text", "Sources">>, <<>>} }

InitCanonicalize == InitWith(CanonicalizeRequests)

\* The dict `normalized` handed back as user_fields: its keys are the model
\* fields, in the order the loop inserted them.
AsUserFields(normalized, model_fields) ==
    [i \in 1..Len(model_fields) |->
        Item(model_fields[i], normalized[model_fields[i]])]

\* normalized, matched, unknown = normalize_fields_for_model(user_fields,
\* model_fields)
NormalizeFields ==
    /\ pc = "start"
    /\ request.entry = "normalize_fields_for_model"
    /\ LET n == normalize_fields_for_model(request.user_fields,
                                           request.model_fields)
       IN  /\ fields' = n.normalized
           /\ index' = n.matched_count
           /\ results' = n.unknown_fields
    /\ pc' = "normalized"
    /\ UNCHANGED << request, outcome, error, normalized_notes, decks_to_create,
                    decks_pending, model_fields_cache, canonical_field_map_cache,
                    img, notes_payload, added, skipped, response, calls >>

\* The same call on the map the first call returned; notes_payload keeps
\* that first map.
NormalizeAgain ==
    /\ pc = "normalized"
    /\ request.entry = "normalize_fields_for_model"
    /\ LET n == normalize_fields_for_model(
                   AsUserFields(fields, request.model_fields),
                   request.model_fields)
       IN  /\ fields' = n.normalized
           /\ index' = n.matched_count
           /\ results' = n.unknown_fields
    /\ notes_payload' = <<fields>>
    /\ pc' = "done"
    /\ outcome' = "returned"
    /\ UNCHANGED << request, error, normalized_notes, decks_to_create,
                    decks_pending, model_fields_cache, canonical_field_map_cache,
                    img, added, skipped, response, calls >>

SpecCanonicalize ==
    InitCanonicalize /\ [][NormalizeFields \/ NormalizeAgain]_vars

(***************************************************************************)
(* ensure_img_tag applied again and again                                  *)
(***************************************************************************)

\* The longest text handed to ensure_img_tag on its own.
MaxTextLen == 3

\* How many times ensure_img_tag is applied to one text.
MaxEnsure == 3

\* Calls of ensure_img_tag(existing, filename): texts of words, blanks,
\* line breaks and img tags.
EnsureImgRequests ==
    { [entry |-> "ensure_img_tag", existing |-> t, filename |-> f] :
        t \in SeqsUpTo({"Q", "s", "nn", build_img_tag("a.png"),
                        build_img_tag("b.png")}, MaxTextLen),
        f \in {"a.png", "b.png"} }

InitEnsureImg == InitWith(EnsureImgRequests)

\* text = ensure_img_tag(text, filename); results keeps every text returned.
EnsureImgTag ==
    /\ request.entry = "ensure_img_tag"
    /\ index < MaxEnsure
    /\ LET text == IF index = 0 THEN request.existing ELSE fields
       IN  /\ fields' = ensure_img_tag(text, request.filename)
           /\ results' = Append(results, ensure_img_tag(text, request.filename))
    /\ index' = index + 1
    /\ UNCHANGED << request, pc, outcome, error, normalized_notes,
                    decks_to_create, decks_pending, model_fields_cache,
                    canonical_field_map_cache, img, notes_payload, added,
                    skipped, response, calls >>

SpecEnsureImg == InitEnsureImg /\ [][EnsureImgTag]_vars

(***************************************************************************)
(* process_data_urls_in_fields called on its own                           *)
(***************************************************************************)

\* The longest field value handed to process_data_urls_in_fields on its own.
MaxUrlText == 3

\* Calls of process_data_urls_in_fields(fields, results, note_index) with
\* the fields Front and Back: words, blanks and data URIs.
DataUrlRequests ==
    { [entry |-> "process_data_urls_in_fields",
       fields |-> [name \in {"Front", "Back"} |->
                     IF name = "Front" THEN front ELSE back],
       keys |-> <<"Front", "Back">>, note_index |-> 1] :
        front \in SeqsUpTo({"Q", "s"} \cup DataUrlTokens, MaxUrlText),
        back \in {<<>>, <<"Q">>, <<"data:png:G">>, <<"data:png:bad">>} }

InitDataUrls == InitWith(DataUrlRequests)

\* await process_data_urls_in_fields(fields, results, note_index); response
\* keeps which of the storeMediaFile calls succeeded.
ProcessDataUrlsInFields ==
    /\ pc = "start"
    /\ request.entry = "process_data_urls_in_fields"
    /\ \E storeOk \in [1..CountDataUrls(request.fields) -> BOOLEAN] :
         LET r == process_data_urls_in_fields(request.fields, request.keys,
                                              request.note_index, storeOk)
         IN  /\ fields' = r.fields
             /\ results' = r.results
             /\ calls' = r.calls
             /\ response' = [kind |-> "storeMediaFile", value |-> storeOk]
    /\ index' = request.note_index
    /\ pc' = "done"
    /\ outcome' = "returned"
    /\ UNCHANGED << request, error, normalized_notes, decks_to_create,
                    decks_pending, model_fields_cache, canonical_field_map_cache,
                    img, notes_payload, added, skipped >>

SpecDataUrls == InitDataUrls /\ [][ProcessDataUrlsInFields]_vars

(***************************************************************************)
(* process_data_urls_in_fields on payloads broken over several lines       *)
(***************************************************************************)

\* The longest value of the field Image.
MaxLineText == 3

\* A line of base64 characters that continues a payload after a line break
\* ("nn"); on its own it is a word like any other.
Base64Line == "b64+H"

\* Calls of process_data_urls_in_fields with the single field Image, whose
\* value is made of data URIs, line breaks, blanks and base64 lines.
DataUrlLineRequests ==
    { [entry |-> "process_data_urls_in_fields",
       fields |-> [name \in {"Image"} |-> value],
       keys |-> <<"Image">>, note_index |-> 0] :
        value \in SeqsUpTo({"data:png:G", "data:jpeg:H", "data:png:bad",
                            "nn", "s", Base64Line}, MaxLineText) }

InitDataUrlLines == InitWith(DataUrlLineRequests)

SpecDataUrlLines == InitDataUrlLines /\ [][ProcessDataUrlsInFields]_vars

(***************************************************************************)
(* tools/notes.py: update_notes                                            *)
(***************************************************************************)

\* The longest batch of updates of the model.
MaxUpdates == 2

\* NoteUpdate: fields is the patch (empty: none given), deck None if absent.
NoteUpdate(note_id, flds, add_tags, remove_tags, deck, images) ==
    [note_id |-> note_id, fields |-> flds, add_tags |-> add_tags,
     remove_tags |-> remove_tags, deck |-> deck, images |-> images]

NoteUpdates ==
    { NoteUpdate("1", <<Item("front", <<"N">>)>>, <<"new">>, <<"old">>, "Target", <<>>),
      NoteUpdate("3", <<Item("Front", <<"N">>)>>, <<"new">>, <<>>, "Target",
                 <<ImageSpec("b64:G", None, "Front", "pic.png")>>),
      NoteUpdate("1", <<Item("Front", <<"N">>), Item("Nope", <<"x">>)>>,
                 <<"new">>, <<>>, "Target",
                 <<ImageSpec("b64:G", None, "Front", "pic.png")>>),
      NoteUpdate("1", <<Item("Nope", <<"x">>)>>, <<"new">>, <<"old">>, "Target", <<>>),
      NoteUpdate("2", <<Item("text", <<"N", "data:png:G">>)>>, <<>>, <<>>, "Target", <<>>),
      NoteUpdate("1", <<>>, <<>>, <<>>, "Default",
                 <<ImageSpec("b64:G", None, "front", "pic.png"),
                   ImageSpec(None, "http://img", "Nope", None)>>),
      NoteUpdate("1", <<>>, <<>>, <<>>, None, <<>>),
      NoteUpdate("2", <<>>, <<>>, <<>>, "Target", <<>>),
      NoteUpdate("5", <<Item("extra", <<"N">>)>>, <<>>, <<>>, None, <<>>),
      NoteUpdate("6", <<>>, <<>>, <<>>, None,
                 <<ImageSpec("b64:G", None, "Front", "pic.png")>>),
      NoteUpdate("4", <<Item("Text", <<"N">>)>>, <<>>, <<"old">>, None,
                 <<ImageSpec("bad", None, "Text", None)>>) }

\* UpdateNotesArgs: at least one NoteUpdate.
UpdateNotesRequests ==
    { [entry |-> "update_notes", notes |-> notes] :
        notes \in SeqsUpTo(NoteUpdates, MaxUpdates) \ {<<>>} }

InitUpdate == InitWith(UpdateNotesRequests)

\* What normalize_notes_info makes of a null entry, and of a note.
NoInfo == [found |-> FALSE]

NoteInfo(note_id, model_name, deck_name, flds, cards) ==
    [found |-> TRUE, note_id |-> note_id, model_name |-> model_name,
     deck_name |-> deck_name, fields |-> flds, cards |-> cards]

\* The notes the AnkiConnect server holds: notes 2 and 5 have no model name,
\* note 3 does not exist, note 4 comes without its fields, the Front of
\* note 6 already shows pic.png.
NotesStore(note_id) ==
    CASE note_id = "1" ->
           NoteInfo("1", "Basic", "Default",
                    <<Item("Front", <<"Q", "s">>), Item("Back", <<"A">>)>>, <<"c1">>)
      [] note_id = "2" ->
           NoteInfo("2", None, "Default", <<Item("Text", <<"Q">>)>>, <<>>)
      [] note_id = "4" ->
           NoteInfo("4", "Cloze", "Default", <<>>, <<"c4">>)
      [] note_id = "5" ->
           NoteInfo("5", None, "Default", <<Item("Extra", <<"E">>)>>, <<"c5">>)
      [] note_id = "6" ->
           NoteInfo("6", "Basic", "Default",
                    <<Item("Front", <<"img:pic.png", "s", "Q">>),
                      Item("Back", <<"A">>)>>, <<"c6">>)
      [] OTHER -> NoInfo

\* note_ids = [note.note_id for note in args.notes]
NoteIds == [i \in 1..Len(request.notes) |-> request.notes[i].note_id]

\* Mutant: every note is given the state fetched for the first one.
InfoByIdFirst(note_id) ==
    IF normalized_notes = <<>> THEN NoInfo ELSE normalized_notes[1]

\* info_by_id.get(note_id) after the loop over zip(note_ids,
\* normalized_notes): the last paired entry of that id, None if there is none.
InfoById(note_id) ==
    LET n == IF Len(NoteIds) <= Len(normalized_notes)
             THEN Len(NoteIds) ELSE Len(normalized_notes)
        hits == {i \in 1..n : NoteIds[i] = note_id}
    IN  IF hits = {} THEN NoInfo
        ELSE normalized_notes[CHOOSE i \in hits : \A j \in hits : j <= i]

\* The NoteUpdate of the current loop iteration and the state fetched for it.
Update == request.notes[index + 1]

Info == InfoById(Update.note_id)

\* info.model_name or ""
InfoModel(info) == IF Truthy(info.model_name) THEN info.model_name ELSE ""

\* list(info.fields.keys())
InfoFieldNames(info) == [i \in 1..Len(info.fields) |-> info.fields[i].k]

\* The loop moves to the next update, or the coroutine returns.
NextUpdate ==
    /\ index' = index + 1
    /\ pc' = IF index + 1 < Len(request.notes) THEN "updPrepare" ELSE "done"
    /\ outcome' = IF index + 1 < Len(request.notes) THEN "running" ELSE "returned"
    /\ UNCHANGED error

\* raw_notes = await anki_call("notesInfo", {"notes": note_ids}) and
\* normalize_notes_info(raw_notes).
UpdateNotesBegin ==
    /\ pc = "start"
    /\ request.entry = "update_notes"
    /\ calls' = <<Call("notesInfo", NoteIds, None, -1)>>
    /\ \/ /\ response' = [kind |-> "error", value |-> <<>>]
          /\ Raise([type |-> "RuntimeError", msg |-> "Anki error"])
          /\ UNCHANGED normalized_notes
       \/ /\ response' = [kind |-> "notlist", value |-> <<>>]
          /\ Raise([type |-> "ValueError",
                    msg |-> "notesInfo response must be a list"])
          /\ UNCHANGED normalized_notes
       \/ /\ response' = [kind |-> "badentry", value |-> <<>>]
          /\ Raise([type |-> "ValueError",
                    msg |-> "notesInfo[0] must be an object or null"])
          /\ UNCHANGED normalized_notes
       \/ \E n \in {Len(NoteIds) - 1, Len(NoteIds)} :
            /\ response' = [kind |-> "list", value |-> SubSeq(NoteIds, 1, n)]
            /\ normalized_notes' = [i \in 1..n |-> NotesStore(NoteIds[i])]
            /\ pc' = "updPrepare"
            /\ UNCHANGED << outcome, error >>
    /\ UNCHANGED << request, decks_to_create, decks_pending, model_fields_cache,
                    canonical_field_map_cache, index, fields, img,
                    notes_payload, results, added, skipped >>

\* detail = {"index": index, "noteId": update.note_id}, later with the model
\* and deck of the note.
DetailOf(update, info) ==
    IF info.found
    THEN [index |-> index, noteId |-> update.note_id,
          model |-> InfoModel(info),
          deck |-> IF Truthy(info.deck_name) THEN info.deck_name ELSE ""]
    ELSE [index |-> index, noteId |-> update.note_id]

\* Mutant: a note without a model name is given the schema cached under the
\* empty name by an earlier note of the batch.
ResolveSchemaBatchDefault(info, mcache, ccache) ==
    LET model_name == InfoModel(info)
        cached == model_name \in DOMAIN mcache
        own == InfoFieldNames(info)
        model_fields == IF cached THEN mcache[model_name]
                        ELSE IF own # <<>> THEN own
                        ELSE ModelSchema(model_name)
        first_map == IF model_name \in DOMAIN ccache THEN ccache[model_name]
                     ELSE CanonicalFieldMap(model_fields)
    IN  [model_fields |-> model_fields,
         canonical_field_map |-> first_map,
         fetch |-> model_name # "" /\ ~cached /\ own = <<>>,
         mcache |-> IF ~cached
                    THEN CacheFields(mcache, model_name, model_fields)
                    ELSE mcache,
         ccache |-> (model_name :> first_map) @@ ccache]

\* The schema of the note: the cached field list of its model, else the
\* keys of its own fields, else (fetch) the modelFieldNames of its model; a
\* note without a model name always goes by its own field keys.
ResolveSchema(info, mcache, ccache) ==
    LET model_name == InfoModel(info)
        cached == model_name \in DOMAIN mcache
        own == InfoFieldNames(info)
        fetch == model_name # "" /\ ~cached /\ own = <<>>
        model_fields == IF model_name = "" THEN own
                        ELSE IF cached THEN mcache[model_name]
                        ELSE IF own # <<>> THEN own
                        ELSE ModelSchema(model_name)
        first_map == IF model_name \in DOMAIN ccache THEN ccache[model_name]
                     ELSE CanonicalFieldMap(model_fields)
    IN  [model_fields |-> model_fields,
         canonical_field_map |-> IF model_name = ""
                                 THEN CanonicalFieldMap(model_fields)
                                 ELSE first_map,
         fetch |-> fetch,
         mcache |-> IF model_name # "" /\ ~cached
                    THEN CacheFields(mcache, model_name, model_fields)
                    ELSE mcache,
         ccache |-> (model_name :> first_map) @@ ccache]

\* The loop over raw_fields.items() that fills fields_payload and
\* updated_fields; keys is the insertion order of fields_payload.
RECURSIVE PatchPayload(_, _, _, _)
PatchPayload(raw_fields, cmap, normalized, acc) ==
    IF raw_fields = <<>> THEN acc
    ELSE LET low == Lower(Head(raw_fields).k)
             hit == low \in DOMAIN cmap /\ Truthy(cmap[low])
             canonical == cmap[low]
         IN  PatchPayload(Tail(raw_fields), cmap, normalized,
               IF ~hit THEN acc
               ELSE [fields |-> (canonical :> normalized[canonical]) @@ acc.fields,
                     keys |-> IF canonical \in Range(acc.keys) THEN acc.keys
                              ELSE Append(acc.keys, canonical),
                     updated |-> Append(acc.updated, canonical)])

\* The working record of one note: its detail, detail_logs, updated_fields,
\* the schema it goes by and the key order of fields_payload.
Working(detail, logs, updated, schema, keys) ==
    [detail |-> detail, logs |-> logs, updated_fields |-> updated,
     model_fields |-> schema.model_fields,
     canonical_field_map |-> schema.canonical_field_map, keys |-> keys]

\* One turn of the loop over args.notes up to the data URLs of the patch:
\* not_found, the schema of the note, the canonicalized patch.
UpdatePrepare ==
    /\ pc = "updPrepare"
    /\ IF ~Info.found
       THEN /\ results' = Append(results,
                   [status |-> "not_found"] @@ DetailOf(Update, Info))
            /\ skipped' = skipped + 1
            /\ NextUpdate
            /\ UNCHANGED << model_fields_cache, canonical_field_map_cache,
                            fields, img, notes_payload, calls >>
       ELSE
         LET schema == ResolveSchema(Info, model_fields_cache,
                                     canonical_field_map_cache)
             fetched == IF schema.fetch
                        THEN <<Call("modelFieldNames", InfoModel(Info), None, index)>>
                        ELSE <<>>
             n == normalize_fields_for_model(Update.fields, schema.model_fields)
             given == Update.fields # <<>>
             patch == IF given /\ n.matched_count # 0
                      THEN PatchPayload(Update.fields, schema.canonical_field_map,
                                        n.normalized,
                                        [fields |-> <<>>, keys |-> <<>>, updated |-> <<>>])
                      ELSE [fields |-> <<>>, keys |-> <<>>, updated |-> <<>>]
             noop == given /\ n.matched_count = 0
         IN  \/ /\ schema.fetch
                /\ calls' = calls \o fetched
                /\ Raise([type |-> "RuntimeError", msg |-> "Anki error"])
                /\ UNCHANGED << model_fields_cache, canonical_field_map_cache,
                                index, fields, img, notes_payload, results, skipped >>
             \/ /\ given /\ n.unknown_fields # <<>>
                /\ calls' = calls \o fetched
                /\ model_fields_cache' = schema.mcache
                /\ canonical_field_map_cache' = schema.ccache
                /\ results' = Append(results,
                       [status |-> "error",
                        error |-> [type |-> "unknown_fields",
                                   fields |-> n.unknown_fields]]
                         @@ DetailOf(Update, Info))
                /\ skipped' = skipped + 1
                /\ NextUpdate
                /\ UNCHANGED << fields, img, notes_payload >>
             \/ /\ ~(given /\ n.unknown_fields # <<>>)
                /\ model_fields_cache' = schema.mcache
                /\ canonical_field_map_cache' = schema.ccache
                /\ \E storeOk \in [1..CountDataUrls(patch.fields) -> BOOLEAN] :
                     LET r == process_data_urls_in_fields(patch.fields, patch.keys,
                                                          index, storeOk)
                     IN  /\ fields' = r.fields
                         /\ calls' = calls \o fetched \o r.calls
                         /\ notes_payload' =
                              << Working(
                                   IF noop
                                   THEN [status |-> "noop"] @@ DetailOf(Update, Info)
                                   ELSE DetailOf(Update, Info),
                                   (IF noop
                                    THEN <<[index |-> index,
                                            warn |-> "no_matching_fields"]>>
                                    ELSE <<>>) \o r.results,
                                   patch.updated, schema, patch.keys) >>
                /\ img' = 0
                /\ pc' = "updImages"
                /\ UNCHANGED << outcome, error, index, results, skipped >>
    /\ UNCHANGED << request, normalized_notes, decks_to_create, decks_pending,
                    added, response >>

\* Mutant: the content the note holds is not looked at.
PreviousFromPayloadOnly(fields_payload, info, canonical_target) ==
    IF canonical_target \in DOMAIN fields_payload
    THEN fields_payload[canonical_target] ELSE <<>>

\* previous = fields_payload.get(canonical_target,
\*                (info.fields or {}).get(canonical_target, ""))
Previous(fields_payload, info, canonical_target) ==
    IF canonical_target \in DOMAIN fields_payload
    THEN fields_payload[canonical_target]
    ELSE UserGet(info.fields, canonical_target)

\* One turn of "for img in update.images": as in add_from_model an unknown
\* target field is a warning; the tag goes after the pending value of the
\* field, or after its fetched content when the patch does not hold it.
UpdateImage ==
    /\ pc = "updImages"
    /\ img < Len(Update.images)
    /\ \E fetched \in BOOLEAN, stored \in BOOLEAN :
         LET w == notes_payload[1]
             im == Update.images[img + 1]
             inline == Truthy(im.image_base64)
             remote == ~inline /\ Truthy(im.image_url)
             clean == sanitize_image_payload(im.image_base64)
             warning == IF inline THEN (IF clean.ok THEN None
                                        ELSE "invalid_image_base64")
                        ELSE IF remote THEN (IF fetched THEN None
                                             ELSE "fetch_image_failed")
                        ELSE "no_image_provided"
             data_b64 == IF inline THEN clean.clean_b64 ELSE "b64:" \o im.image_url
             ext_hint == IF inline THEN clean.ext ELSE None
             filename == IF Truthy(im.filename) THEN im.filename
                         ELSE Uuid(index, img) \o "."
                                \o (IF Truthy(ext_hint) THEN ext_hint ELSE "jpg")
             low == Lower(im.target_field)
             known == KnownTarget(w.canonical_field_map, im.target_field)
             target == IF low \in DOMAIN w.canonical_field_map
                       THEN w.canonical_field_map[low] ELSE None
             previous == Previous(fields, Info, target)
             fetch_call == IF remote
                           THEN <<Call("fetchImage", im.image_url, None, index)>>
                           ELSE <<>>
             store_call == <<Call("storeMediaFile", filename, data_b64, index)>>
             Warn(record) ==
                 /\ notes_payload' = <<[w EXCEPT !.logs = Append(@, record)]>>
                 /\ UNCHANGED fields
         IN  IF warning # None
             THEN /\ Warn([index |-> index, warn |-> warning])
                  /\ calls' = calls \o fetch_call
             ELSE IF ~known
             THEN /\ Warn([index |-> index, warn |-> "unknown_target_field",
                           field |-> im.target_field])
                  /\ calls' = calls \o fetch_call
             ELSE /\ calls' = calls \o fetch_call \o store_call
                  /\ IF stored
                     THEN /\ fields' = (target :> ensure_img_tag(previous, filename))
                                          @@ fields
                          /\ notes_payload' =
                               <<[w EXCEPT
                                    !.updated_fields = Append(@, target),
                                    !.keys = IF target \in Range(@) THEN @
                                             ELSE Append(@, target)]>>
                     ELSE Warn([index |-> index, warn |-> "store_media_failed"])
    /\ img' = img + 1
    /\ UNCHANGED << request, pc, outcome, error, normalized_notes,
                    decks_to_create, decks_pending, model_fields_cache,
                    canonical_field_map_cache, index, results, added, skipped,
                    response >>

\* Mutant: the tags are added before the fields are updated.
OperationsTagsFirst(update, info, flds) ==
    (IF update.add_tags # <<>> THEN <<"addTags">> ELSE <<>>)
    \o (IF DOMAIN flds # {} THEN <<"updateNoteFields">> ELSE <<>>)
    \o (IF update.remove_tags # <<>> THEN <<"removeTags">> ELSE <<>>)
    \o (IF Truthy(update.deck) /\ update.deck # DetailOf(update, info).deck
           /\ info.cards # <<>>
        THEN <<"changeDeck">> ELSE <<>>)

\* Mutant: the deck is changed even when the note has no known cards.
OperationsDeckWithoutCards(update, info, flds) ==
    (IF DOMAIN flds # {} THEN <<"updateNoteFields">> ELSE <<>>)
    \o (IF update.add_tags # <<>> THEN <<"addTags">> ELSE <<>>)
    \o (IF update.remove_tags # <<>> THEN <<"removeTags">> ELSE <<>>)
    \o (IF Truthy(update.deck) /\ update.deck # DetailOf(update, info).deck
        THEN <<"changeDeck">> ELSE <<>>)

\* The mutation calls the try block is to issue, in its order.
Operations(update, info, flds) ==
    (IF DOMAIN flds # {} THEN <<"updateNoteFields">> ELSE <<>>)
    \o (IF update.add_tags # <<>> THEN <<"addTags">> ELSE <<>>)
    \o (IF update.remove_tags # <<>> THEN <<"removeTags">> ELSE <<>>)
    \o (IF Truthy(update.deck) /\ update.deck # DetailOf(update, info).deck
           /\ info.cards # <<>>
        THEN <<"changeDeck">> ELSE <<>>)

\* Mutant: the try block goes on after a call raised.
IssuedAll(ops, failAt) == ops

\* The operations the try block gets to issue when the failAt-th raises
\* (0: none raises): the except clause ends the block.
Issued(ops, failAt) == IF failAt > 0 THEN SubSeq(ops, 1, failAt) ELSE ops

\* The call made for one operation.
MutationCall(op, update, info, flds) ==
    Call(op, update.note_id,
         CASE op = "updateNoteFields" -> flds
           [] op = "addTags" -> update.add_tags
           [] op = "removeTags" -> update.remove_tags
           [] op = "changeDeck" -> [cards |-> info.cards, deck |-> update.deck],
         index)

\* Mutant: a note left as it was counts as updated too.
CountsNoopAsUpdated(status) == status \in {"ok", "noop"}

\* The note closed with this status goes to updated (else to skipped).
CountsAsUpdated(status) == status = "ok"

\* What the operations that came back add to the detail.
Performed(update, succeeded) ==
    (IF "addTags" \in Range(succeeded)
     THEN [addedTags |-> update.add_tags] ELSE <<>>)
    @@ (IF "removeTags" \in Range(succeeded)
        THEN [removedTags |-> update.remove_tags] ELSE <<>>)
    @@ (IF "changeDeck" \in Range(succeeded)
        THEN [deckChangedTo |-> update.deck] ELSE <<>>)

\* The try block and the end of the loop body: the operations are issued in
\* order until one raises (failAt; 0: none does), then the detail is closed.
\* detail["error"] = str(exc) is kept as a record of type "exception".
UpdateApply ==
    /\ pc = "updImages"
    /\ img = Len(Update.images)
    /\ LET w == notes_payload[1]
           ops == Operations(Update, Info, fields)
       IN  \E failAt \in 0..Len(ops) :
             LET failed == failAt > 0
                 issued == Issued(ops, failAt)
                 succeeded == IF failed THEN SubSeq(ops, 1, failAt - 1) ELSE ops
                 no_cards == /\ ~failed
                             /\ Truthy(Update.deck)
                             /\ Update.deck # w.detail.deck
                             /\ Info.cards = <<>>
                 logs == w.logs \o
                           (IF no_cards
                            THEN <<[index |-> index,
                                    warn |-> "no_cards_for_deck_change"]>>
                            ELSE <<>>)
                 extras == (IF w.updated_fields # <<>>
                            THEN [updatedFields |-> Sorted(w.updated_fields)]
                            ELSE <<>>)
                           @@ (IF logs # <<>> THEN [logs |-> logs] ELSE <<>>)
                           @@ Performed(Update, succeeded)
                 status == IF failed THEN "error"
                           ELSE IF succeeded # <<>> THEN "ok"
                           ELSE IF "status" \in DOMAIN w.detail
                           THEN w.detail.status ELSE "noop"
                 detail == [status |-> status]
                           @@ (IF failed
                               THEN [error |-> [type |-> "exception",
                                                text |-> "Anki error"]]
                               ELSE <<>>)
                           @@ extras @@ w.detail
             IN  /\ calls' = calls \o
                      [i \in 1..Len(issued) |->
                         MutationCall(issued[i], Update, Info, fields)]
                 /\ results' = Append(results, detail)
                 /\ added' = IF CountsAsUpdated(status) THEN added + 1 ELSE added
                 /\ skipped' = IF CountsAsUpdated(status) THEN skipped
                               ELSE skipped + 1
    /\ NextUpdate
    /\ UNCHANGED << request, normalized_notes, decks_to_create, decks_pending,
                    model_fields_cache, canonical_field_map_cache, fields, img,
                    notes_payload, response >>

NextUpdateNotes ==
    \/ UpdateNotesBegin
    \/ UpdatePrepare
    \/ UpdateImage
    \/ UpdateApply

SpecUpdate == InitUpdate /\ [][NextUpdateNotes]_vars

(***************************************************************************)
(* Top-level invocations running concurrently                              *)
(***************************************************************************)

\* The number of invocations the event loop runs side by side.  Under
\* SpecConcurrent every variable holds one value per invocation: the locals
\* of its coroutine frame, and the remote calls it has issued.
MaxInvocations == 2

Invocations == 1..MaxInvocations

\* deck = deck or config.DEFAULT_DECK; model = model or config.DEFAULT_MODEL
DeckOfRequest(req) == IF Truthy(req.deck) THEN req.deck ELSE DEFAULT_DECK

ModelOfRequest(req) == IF Truthy(req.model) THEN req.model ELSE DEFAULT_MODEL

\* note_deck = note.deck or deck; note_model = note.model or model
DeckOfNote(req, note) == IF Truthy(note.deck) THEN note.deck ELSE DeckOfRequest(req)

ModelOfNote(req, note) ==
    IF Truthy(note.model) THEN note.model ELSE ModelOfRequest(req)

\* Notes without images or embedded data URIs, so that the only remote
\* calls of an invocation are createDeck, modelFieldNames, addNotes,
\* notesInfo and the mutation calls.
PlainNote == NoteInput("NoteInput", <<Item("Front", <<"Q">>), Item("Back", <<"A">>)>>,
                       <<"t1">>, <<>>, "k1", None, None)

ClozeNote == NoteInput("NoteInput", <<Item("Text", <<"Q">>)>>,
                       <<>>, <<>>, None, "Special", "Cloze")

BackOnlyNote == NoteInput("NoteInput", <<Item("back", <<"A">>)>>,
                          <<>>, <<>>, "k2", None, None)

ConcurrentRequests ==
    { [entry |-> "add_notes", deck |-> "Deck", model |-> DEFAULT_MODEL,
       items_given |-> TRUE, items |-> <<PlainNote, ClozeNote>>],
      [entry |-> "add_notes", deck |-> "Deck", model |-> DEFAULT_MODEL,
       items_given |-> TRUE, items |-> <<PlainNote, PlainNote>>],
      [entry |-> "add_from_model", deck |-> None, model |-> None,
       items_given |-> TRUE, items |-> <<ClozeNote, BackOnlyNote>>],
      [entry |-> "update_notes",
       notes |-> << NoteUpdate("4", <<Item("text", <<"N">>)>>, <<>>, <<>>, None, <<>>),
                    NoteUpdate("1", <<Item("front", <<"N">>)>>, <<>>, <<>>, None, <<>>) >>],
      [entry |-> "update_notes",
       notes |-> << NoteUpdate("4", <<>>, <<"new">>, <<>>, None, <<>>),
                    NoteUpdate("4", <<Item("Nope", <<"x">>)>>, <<>>, <<>>, None, <<>>) >>] }

InitConcurrent ==
    /\ request \in [Invocations -> ConcurrentRequests]
    /\ pc = [i \in Invocations |-> "start"]
    /\ outcome = [i \in Invocations |-> "running"]
    /\ error = [i \in Invocations |-> NoError]
    /\ normalized_notes = [i \in Invocations |-> <<>>]
    /\ decks_to_create = [i \in Invocations |-> {}]
    /\ decks_pending = [i \in Invocations |-> {}]
    /\ model_fields_cache = [i \in Invocations |-> <<>>]
    /\ canonical_field_map_cache = [i \in Invocations |-> <<>>]
    /\ index = [i \in Invocations |-> 0]
    /\ fields = <<>>
    /\ img = 0
    /\ notes_payload = [i \in Invocations |-> <<>>]
    /\ results = [i \in Invocations |-> <<>>]
    /\ added = [i \in Invocations |-> 0]
    /\ skipped = [i \in Invocations |-> 0]
    /\ response = [i \in Invocations |-> NoResponse]
    /\ calls = [i \in Invocations |-> <<>>]

\* Invocation i issues the given remote calls.
Issue(i, new) == calls' = [calls EXCEPT ![i] = @ \o new]

\* Mutant: the caches are process-global, every invocation uses the first.
CacheSlotShared(i) == 1

\* model_fields_cache and canonical_field_map_cache are created in the body
\* of the tool function: each invocation has its own pair.
CacheSlot(i) == i

\* The loop over the notes moves on, or reaches the addNotes call.
AfterNote(i) ==
    IF index[i] + 1 < Len(normalized_notes[i]) THEN "ensureModel" ELSE "addNotes"

\* add_notes up to its first await; add_from_model up to the createDeck
\* call of its default deck; update_notes up to its notesInfo call.
ConcBegin(i) ==
    /\ pc[i] = "start"
    /\ CASE request[i].entry = "add_notes" ->
              /\ normalized_notes' = [normalized_notes EXCEPT ![i] = request[i].items]
              /\ decks_to_create' = [decks_to_create EXCEPT
                     ![i] = DecksOf(request[i].deck, request[i].items)]
              /\ decks_pending' = [decks_pending EXCEPT
                     ![i] = DecksOf(request[i].deck, request[i].items)]
              /\ pc' = [pc EXCEPT ![i] = "createDecks"]
              /\ UNCHANGED calls
         [] request[i].entry = "add_from_model" ->
              /\ Issue(i, <<Call("createDeck", DeckOfRequest(request[i]), None, -1)>>)
              /\ pc' = [pc EXCEPT ![i] = "normalizeItems"]
              /\ UNCHANGED << normalized_notes, decks_to_create, decks_pending >>
         [] request[i].entry = "update_notes" ->
              /\ Issue(i, <<Call("notesInfo",
                                  [k \in 1..Len(request[i].notes) |->
                                     request[i].notes[k].note_id],
                                  None, -1)>>)
              /\ pc' = [pc EXCEPT ![i] = "notesInfo"]
              /\ UNCHANGED << normalized_notes, decks_to_create, decks_pending >>
    /\ UNCHANGED << request, outcome, error, model_fields_cache,
                    canonical_field_map_cache, index, fields, img, notes_payload,
                    results, added, skipped, response >>

\* add_from_model after its first createDeck: the items become NoteInput
\* objects and decks_to_create is filled.
ConcNormalizeItems(i) ==
    /\ pc[i] = "normalizeItems"
    /\ normalized_notes' = [normalized_notes EXCEPT ![i] = request[i].items]
    /\ decks_to_create' = [decks_to_create EXCEPT
           ![i] = DecksOf(DeckOfRequest(request[i]), request[i].items)]
    /\ decks_pending' = [decks_pending EXCEPT
           ![i] = DecksOf(DeckOfRequest(request[i]), request[i].items)]
    /\ pc' = [pc EXCEPT ![i] = "createDecks"]
    /\ UNCHANGED << request, outcome, error, model_fields_cache,
                    canonical_field_map_cache, index, fields, img, notes_payload,
                    results, added, skipped, response, calls >>

\* for deck_name in decks_to_create: await anki_call("createDeck", ...)
ConcCreateDeck(i) ==
    /\ pc[i] = "createDecks"
    /\ \E deck_name \in decks_pending[i] :
         /\ Issue(i, <<Call("createDeck", deck_name, None, -1)>>)
         /\ decks_pending' = [decks_pending EXCEPT ![i] = @ \ {deck_name}]
         /\ pc' = [pc EXCEPT ![i] = IF decks_pending[i] = {deck_name}
                                    THEN "ensureModel" ELSE "createDecks"]
    /\ UNCHANGED << request, outcome, error, normalized_notes, decks_to_create,
                    model_fields_cache, canonical_field_map_cache, index, fields,
                    img, notes_payload, results, added, skipped, response >>

\* From the return of _ensure_model_context to the next await: the fields
\* are validated against model_fields and the payload is appended.
ValidateAndAppend(i, model_fields) ==
    LET note == normalized_notes[i][index[i] + 1]
        r == normalize_and_validate_note_fields(note.fields, model_fields)
    IN  IF r.ok
        THEN /\ notes_payload' = [notes_payload EXCEPT ![i] = Append(@,
                   [deckName |-> DeckOfNote(request[i], note),
                    modelName |-> ModelOfNote(request[i], note),
                    fields |-> AutoLinkSources(r.fields), tags |-> note.tags,
                    options |-> [allowDuplicate |-> FALSE]])]
             /\ index' = [index EXCEPT ![i] = @ + 1]
             /\ pc' = [pc EXCEPT ![i] = AfterNote(i)]
             /\ UNCHANGED << outcome, error >>
        ELSE /\ pc' = [pc EXCEPT ![i] = "done"]
             /\ outcome' = [outcome EXCEPT ![i] = "raised"]
             /\ error' = [error EXCEPT ![i] = [type |-> "ValueError"] @@ r]
             /\ UNCHANGED << notes_payload, index >>

\* _ensure_model_context up to its await: a model the cache holds needs no
\* call, for any other modelFieldNames is issued.
ConcEnsureModel(i) ==
    /\ pc[i] = "ensureModel"
    /\ LET note == normalized_notes[i][index[i] + 1]
           model_name == ModelOfNote(request[i], note)
           cache == model_fields_cache[CacheSlot(i)]
       IN  IF NotCached(cache, model_name)
           THEN /\ Issue(i, <<Call("modelFieldNames", model_name, None, index[i])>>)
                /\ pc' = [pc EXCEPT ![i] = "awaitFields"]
                /\ UNCHANGED << outcome, error, notes_payload, index >>
           ELSE /\ ValidateAndAppend(i, cache[model_name])
                /\ UNCHANGED calls
    /\ UNCHANGED << request, normalized_notes, decks_to_create, decks_pending,
                    model_fields_cache, canonical_field_map_cache, fields, img,
                    results, added, skipped, response >>

\* _ensure_model_context after its await: the answer is cached and returned.
ConcCacheFields(i) ==
    /\ pc[i] = "awaitFields"
    /\ LET note == normalized_notes[i][index[i] + 1]
           model_name == ModelOfNote(request[i], note)
           flds == ModelSchema(model_name)
       IN  /\ model_fields_cache' = [model_fields_cache EXCEPT
                  ![CacheSlot(i)] = CacheFields(@, model_name, flds)]
           /\ canonical_field_map_cache' = [canonical_field_map_cache EXCEPT
                  ![CacheSlot(i)] = (model_name :> CanonicalFieldMap(flds)) @@ @]
           /\ ValidateAndAppend(i, flds)
    /\ UNCHANGED << request, normalized_notes, decks_to_create, decks_pending,
                    fields, img, results, added, skipped, response, calls >>

\* The addNotes call and the loop over its answer.
ConcAddNotes(i) ==
    /\ pc[i] = "addNotes"
    /\ Issue(i, <<Call("addNotes", notes_payload[i], None, -1)>>)
    /\ \E resp \in {r \in Responses(normalized_notes[i]) :
                      Len(r) = Len(normalized_notes[i])} :
         LET n == Enumerated(resp, normalized_notes[i])
         IN  /\ response' = [response EXCEPT ![i] = [kind |-> "list", value |-> resp]]
             /\ results' = [results EXCEPT
                    ![i] = @ \o ResponseDetails(resp, normalized_notes[i])]
             /\ skipped' = [skipped EXCEPT ![i] = @ + CountNull(resp, n)]
             /\ added' = [added EXCEPT ![i] = @ + (n - CountNull(resp, n))]
    /\ pc' = [pc EXCEPT ![i] = "done"]
    /\ outcome' = [outcome EXCEPT ![i] = "returned"]
    /\ UNCHANGED << request, error, normalized_notes, decks_to_create,
                    decks_pending, model_fields_cache, canonical_field_map_cache,
                    index, fields, img, notes_payload >>

\* update_notes after its notesInfo call: the answer is normalized.
ConcNotesInfo(i) ==
    /\ pc[i] = "notesInfo"
    /\ normalized_notes' = [normalized_notes EXCEPT
           ![i] = [k \in 1..Len(request[i].notes) |->
                     NotesStore(request[i].notes[k].note_id)]]
    /\ pc' = [pc EXCEPT ![i] = "updNote"]
    /\ UNCHANGED << request, outcome, error, decks_to_create, decks_pending,
                    model_fields_cache, canonical_field_map_cache, index, fields,
                    img, notes_payload, results, added, skipped, response, calls >>

\* The note of update_notes that invocation i is at is closed.
CloseUpdate(i, detail) ==
    /\ results' = [results EXCEPT ![i] = Append(@, detail)]
    /\ added' = [added EXCEPT
           ![i] = IF CountsAsUpdated(detail.status) THEN @ + 1 ELSE @]
    /\ skipped' = [skipped EXCEPT
           ![i] = IF CountsAsUpdated(detail.status) THEN @ ELSE @ + 1]
    /\ index' = [index EXCEPT ![i] = @ + 1]
    /\ pc' = [pc EXCEPT ![i] = IF index[i] + 1 < Len(request[i].notes)
                               THEN "updNote" ELSE "done"]
    /\ outcome' = [outcome EXCEPT ![i] = IF index[i] + 1 < Len(request[i].notes)
                                         THEN "running" ELSE "returned"]

\* One note of update_notes once its schema is known: the patch is
\* canonicalized and the mutation calls are issued.
PatchAndApply(i, schema) ==
    LET update == request[i].notes[index[i] + 1]
        info == normalized_notes[i][index[i] + 1]
        base == [index |-> index[i], noteId |-> update.note_id,
                 model |-> InfoModel(info),
                 deck |-> IF Truthy(info.deck_name) THEN info.deck_name ELSE ""]
        n == normalize_fields_for_model(update.fields, schema.model_fields)
        given == update.fields # <<>>
        patch == IF given /\ n.matched_count # 0
                 THEN PatchPayload(update.fields, schema.canonical_field_map,
                                   n.normalized,
                                   [fields |-> <<>>, keys |-> <<>>, updated |-> <<>>])
                 ELSE [fields |-> <<>>, keys |-> <<>>, updated |-> <<>>]
        ops == Operations(update, info, patch.fields)
    IN  /\ model_fields_cache' = [model_fields_cache EXCEPT
               ![CacheSlot(i)] = schema.mcache]
        /\ canonical_field_map_cache' = [canonical_field_map_cache EXCEPT
               ![CacheSlot(i)] = schema.ccache]
        /\ IF given /\ n.unknown_fields # <<>>
           THEN /\ CloseUpdate(i, [status |-> "error",
                                   error |-> [type |-> "unknown_fields",
                                              fields |-> n.unknown_fields]] @@ base)
                /\ UNCHANGED calls
           ELSE /\ Issue(i,
                     [j \in 1..Len(ops) |->
                        Call(ops[j], update.note_id,
                                       CASE ops[j] = "updateNoteFields" -> patch.fields
                                         [] ops[j] = "addTags" -> update.add_tags
                                         [] ops[j] = "removeTags" -> update.remove_tags
                                         [] ops[j] = "changeDeck" ->
                                              [cards |-> info.cards, deck |-> update.deck],
                                       index[i])])
                /\ CloseUpdate(i, [status |-> IF ops # <<>> THEN "ok" ELSE "noop"]
                                  @@ (IF patch.updated # <<>>
                                      THEN [updatedFields |-> Sorted(patch.updated)]
                                      ELSE <<>>)
                                  @@ Performed(update, ops) @@ base)

\* One turn of the loop of update_notes up to its first await: not_found,
\* or the schema of the note, fetched with modelFieldNames when neither the
\* cache nor the note gives it.
ConcUpdateNote(i) ==
    /\ pc[i] = "updNote"
    /\ LET update == request[i].notes[index[i] + 1]
           info == normalized_notes[i][index[i] + 1]
           schema == ResolveSchema(info, model_fields_cache[CacheSlot(i)],
                                   canonical_field_map_cache[CacheSlot(i)])
       IN  IF ~info.found
           THEN /\ CloseUpdate(i, [index |-> index[i], noteId |-> update.note_id,
                                   status |-> "not_found"])
                /\ UNCHANGED << model_fields_cache, canonical_field_map_cache, calls >>
           ELSE IF schema.fetch
           THEN /\ Issue(i, <<Call("modelFieldNames", InfoModel(info), None, index[i])>>)
                /\ pc' = [pc EXCEPT ![i] = "updAwaitFields"]
                /\ UNCHANGED << outcome, index, results, added, skipped,
                                model_fields_cache, canonical_field_map_cache >>
           ELSE PatchAndApply(i, schema)
    /\ UNCHANGED << request, error, normalized_notes, decks_to_create,
                    decks_pending, fields, img, notes_payload, response >>

\* update_notes after the modelFieldNames call of a note: the answer is
\* cached under the model name and the note is carried on with.
ConcUpdateCache(i) ==
    /\ pc[i] = "updAwaitFields"
    /\ LET info == normalized_notes[i][index[i] + 1]
           model_name == InfoModel(info)
           flds == ModelSchema(model_name)
           ccache == canonical_field_map_cache[CacheSlot(i)]
           first_map == IF model_name \in DOMAIN ccache THEN ccache[model_name]
                        ELSE CanonicalFieldMap(flds)
       IN  PatchAndApply(i,
             [model_fields |-> flds, canonical_field_map |-> first_map,
              fetch |-> TRUE,
              mcache |-> CacheFields(model_fields_cache[CacheSlot(i)], model_name, flds),
              ccache |-> (model_name :> first_map) @@ ccache])
    /\ UNCHANGED << request, error, normalized_notes, decks_to_create,
                    decks_pending, fields, img, notes_payload, response >>

\* The event loop resumes one of the invocations at a time.
NextConcurrent ==
    \E i \in Invocations :
      \/ ConcBegin(i)
      \/ ConcNormalizeItems(i)
      \/ ConcCreateDeck(i)
      \/ ConcEnsureModel(i)
      \/ ConcCacheFields(i)
      \/ ConcAddNotes(i)
      \/ ConcNotesInfo(i)
      \/ ConcUpdateNote(i)
      \/ ConcUpdateCache(i)

SpecConcurrent == InitConcurrent /\ [][NextConcurrent]_vars

(***************************************************************************)
(* The three entry points side by side                                     *)
(***************************************************************************)

InitNotes ==
    InitWith(AddNotesRequests \cup AddFromModelRequests \cup UpdateNotesRequests)

SpecNotes == InitNotes /\ [][Next \/ NextUpdateNotes]_vars

(***************************************************************************)
(* tools/notes.py: delete_notes                                            *)
(***************************************************************************)

\* The most note ids of a delete_notes request.
MaxIds == 3

\* The longest list of a deleteNotes response.
MaxItems == 3

\* The values a decoded deleteNotes response is made of.  A number is kept
\* in halves (h = 2 * value), so that 1.5 is a value and int() truncates.
JNull == [kind |-> "null"]

JBool(b) == [kind |-> "bool", b |-> b]

JNum(h) == [kind |-> "num", h |-> h]

JStr(s) == [kind |-> "str", s |-> s]

JList(items) == [kind |-> "list", items |-> items]

JMap(entries) == [kind |-> "map", entries |-> entries]

\* int(value) of a number: truncation towards zero.
IntOf(h) == IF h >= 0 THEN h \div 2 ELSE -((-h) \div 2)

\* _coerce_count(value); IntOfString is int(text) of the strings that
\* parse, on the others it raises ValueError.
CoerceCount(value) ==
    LET IntOfString == ("3" :> 3) @@ ("-2" :> -2)
    IN
    CASE value.kind = "bool" -> IF value.b THEN 1 ELSE 0
      [] value.kind = "num" -> IntOf(value.h)
      [] value.kind = "null" -> 0
      [] value.kind = "str" ->
           IF value.s = "" THEN 0
           ELSE IF value.s \in DOMAIN IntOfString THEN IntOfString[value.s]
           ELSE 1
      [] OTHER -> 1

\* max(_coerce_count(item.get(key)), 0) if key in item, else nothing.
CountUnder(entries, key) ==
    IF key \in DOMAIN entries
    THEN IF CoerceCount(entries[key]) > 0 THEN CoerceCount(entries[key]) ELSE 0
    ELSE 0

\* isinstance(value, (list, tuple, set)) of item.get(key)
ListUnder(entries, key) ==
    IF key \in DOMAIN entries /\ entries[key].kind = "list"
    THEN entries[key].items
    ELSE <<>>

\* The status branch of a mapping: which counter goes up by one.
StatusOf(entries) ==
    IF "status" \in DOMAIN entries /\ entries["status"].kind = "str"
    THEN LET status == entries["status"].s
             lowered == CASE status = "OK" -> "ok"
                          [] status = "Success" -> "success"
                          [] status = "Not_Found" -> "not_found"
                          [] OTHER -> status
         IN  IF lowered \in {"ok", "deleted", "success"} THEN "deleted"
             ELSE IF lowered \in {"missing", "skipped", "not_found",
                                  "notfound", "failed"} THEN "missing"
             ELSE "neither"
    ELSE "neither"

RECURSIVE Consume(_, _)
RECURSIVE ConsumeEach(_, _)

\* for sub in items: _consume(sub)
ConsumeEach(items, counts) ==
    IF items = <<>> THEN counts
    ELSE ConsumeEach(Tail(items), Consume(Head(items), counts))

\* _consume(item), on the counters deleted and missing.
Consume(item, counts) ==
    CASE item.kind = "null" -> counts
      [] item.kind = "map" ->
           LET e == item.entries
               nested == ConsumeEach(ListUnder(e, "notes"),
                                     ConsumeEach(ListUnder(e, "results"), counts))
               status == StatusOf(e)
           IN  [deleted |-> nested.deleted + CountUnder(e, "deleted")
                              + CountUnder(e, "success") + CountUnder(e, "removed")
                              + (IF status = "deleted" THEN 1 ELSE 0),
                missing |-> nested.missing + CountUnder(e, "missing")
                              + CountUnder(e, "skipped") + CountUnder(e, "failed")
                              + CountUnder(e, "notFound")
                              + CountUnder(e, "not_found")
                              + (IF status = "missing" THEN 1 ELSE 0)]
      [] item.kind = "list" -> ConsumeEach(item.items, counts)
      [] item.kind = "bool" ->
           IF item.b THEN [counts EXCEPT !.deleted = @ + 1]
           ELSE [counts EXCEPT !.missing = @ + 1]
      [] item.kind = "num" ->
           LET count == IntOf(item.h)
           IN  IF count > 0 THEN [counts EXCEPT !.deleted = @ + count]
               ELSE IF count < 0 THEN [counts EXCEPT !.missing = @ - count]
               ELSE counts
      [] item.kind = "str" ->
           IF item.s \notin {"", " "} THEN [counts EXCEPT !.deleted = @ + 1]
           ELSE [counts EXCEPT !.missing = @ + 1]

\* Mutant: the counters are returned as they were consumed.
NormalizeCountsNot(deleted, missing, n) == [deleted |-> deleted, missing |-> missing]

\* The end of delete_notes: processed = deleted + missing is brought to
\* len(note_ids).
NormalizeCounts(deleted, missing, n) ==
    LET d == IF deleted < 0 THEN 0 ELSE deleted
        m == IF missing < 0 THEN 0 ELSE missing
        processed == d + m
        overflow == processed - n
    IN  IF processed < n THEN [deleted |-> d, missing |-> m + (n - processed)]
        ELSE IF processed > n
        THEN IF m >= overflow
             THEN [deleted |-> d, missing |-> m - overflow]
             ELSE [deleted |-> IF d - (overflow - m) > 0
                               THEN d - (overflow - m) ELSE 0,
                   missing |-> 0]
        ELSE [deleted |-> d, missing |-> m]

\* The counters before the normalisation: deleted = len(note_ids) for a
\* null response, what _consume counted otherwise.
Counted(resp, n) ==
    IF resp.kind = "null" THEN [deleted |-> n, missing |-> 0]
    ELSE Consume(resp, [deleted |-> 0, missing |-> 0])

\* DeleteNotesResult(deleted=deleted, missing=missing)
DeleteNotesResult(resp, n) ==
    NormalizeCounts(Counted(resp, n).deleted, Counted(resp, n).missing, n)

\* The deleteNotes responses of the model.  Over is a count larger than any
\* request.  Scalars: booleans, null, numbers (-1.5, -1, 0, 0.5, 1, 1.5,
\* Over) and strings.  FlatMaps: mappings of counters and statuses.
\* Elements: what lists are made of.  NestedMaps: mappings that carry a list
\* under results or notes.
DeleteResponses ==
    LET Over == MaxIds + 2
        Scalars ==
            {JNull, JBool(TRUE), JBool(FALSE)}
              \cup {JNum(h) : h \in {-3, -2, 0, 1, 2, 3, 2 * Over}}
              \cup {JStr(s) : s \in {"", " ", "x", "3", "-2"}}
        CountKeys ==
            {"deleted", "success", "removed", "missing", "skipped", "failed",
             "notFound", "not_found"}
        Statuses ==
            {"OK", "deleted", "Success", "missing", "skipped", "Not_Found",
             "notfound", "failed", "other"}
        FlatMaps ==
            {JMap(k :> v) : k \in CountKeys, v \in Scalars \cup {JList(<<>>)}}
              \cup {JMap("status" :> v) :
                      v \in {JStr(s) : s \in Statuses} \cup {JBool(TRUE)}}
              \cup {JMap(("deleted" :> a) @@ ("missing" :> b)) :
                      a, b \in {JNum(2), JNum(6), JNum(2 * Over), JStr("3")}}
              \cup {JMap(("removed" :> a) @@ ("status" :> JStr(s))) :
                      a \in {JNum(2), JNum(2 * Over)}, s \in {"OK", "failed"}}
              \cup {JMap([k \in {} |-> JNull]), JMap("other" :> JNum(2))}
        Elements ==
            {JNull, JBool(TRUE), JBool(FALSE), JNum(2), JNum(-2), JNum(2 * Over),
             JStr(""), JStr("x"), JMap("status" :> JStr("missing")),
             JMap("status" :> JStr("OK")), JMap("deleted" :> JNum(4)),
             JList(<<JBool(TRUE), JBool(FALSE)>>)}
        NestedMaps ==
            {JMap("results" :> JList(l)) : l \in SeqsUpTo(Elements, 2)}
              \cup {JMap(("notes" :> JList(l)) @@ ("deleted" :> JNum(2))) :
                      l \in SeqsUpTo(Elements, 2)}
              \cup {JMap(("results" :> JList(l)) @@ ("notes" :> JList(l))) :
                      l \in SeqsUpTo(Elements, 1)}
              \cup {JMap("results" :> JNum(4))}
    IN  Scalars \cup FlatMaps \cup NestedMaps
          \cup {JList(l) : l \in SeqsUpTo(Elements, MaxItems)}

\* DeleteNotesArgs with 0..MaxIds note ids.
DeleteNotesRequests ==
    { [entry |-> "delete_notes", note_ids |-> [i \in 1..n |-> i]] : n \in 0..MaxIds }

InitDelete == InitWith(DeleteNotesRequests)

\* delete_notes(args): the guard on note_ids, the deleteNotes call, which
\* raises or comes back with a response, and the result built from it.
DeleteNotes ==
    /\ pc = "start"
    /\ request.entry = "delete_notes"
    /\ IF Len(request.note_ids) = 0
       THEN /\ Raise([type |-> "ValueError",
                      msg |-> "note_ids must contain at least one id"])
            /\ UNCHANGED << response, calls, results >>
       ELSE /\ calls' = calls \o <<Call("deleteNotes", request.note_ids, <<>>, 0)>>
            /\ \/ /\ response' = [kind |-> "error", value |-> <<>>]
                  /\ Raise([type |-> "RuntimeError", msg |-> "deleteNotes_failed"])
                  /\ UNCHANGED results
               \/ \E resp \in DeleteResponses :
                    /\ response' = [kind |-> "deleteNotes", value |-> resp]
                    /\ results' = DeleteNotesResult(resp, Len(request.note_ids))
                    /\ pc' = "done"
                    /\ outcome' = "returned"
                    /\ UNCHANGED error
    /\ UNCHANGED << request, normalized_notes, decks_to_create, decks_pending,
                    model_fields_cache, canonical_field_map_cache, index,
                    fields, img, notes_payload, added, skipped >>

SpecDelete == InitDelete /\ [][DeleteNotes]_vars

(***************************************************************************)
(* Properties                                                              *)
(***************************************************************************)

\* An invocation of add_notes or add_from_model.
AddEntry == request.entry \in {"add_notes", "add_from_model"}

Returned == AddEntry /\ outcome = "returned"

Submitted == Len(normalized_notes)

CallsOf(action) == {i \in 1..Len(calls) : calls[i].action = action}

\* The ok / duplicate records of the result, in result order.
StatusRecords == SelectSeq(results, LAMBDA r : "status" \in DOMAIN r)

\* The warning and info records of the result.
NoticeRecords == SelectSeq(results, LAMBDA r : "status" \notin DOMAIN r)

\* The union of the drafts' effective decks.
EffectiveDecks == {NoteDeck(normalized_notes[k]) : k \in 1..Submitted}

EffectiveModels == {NoteModel(normalized_notes[k]) : k \in 1..Submitted}

\* C1: every result returned for N submitted drafts has added + skipped = N,
\* whatever array the addNotes call returned.
C1_AddedPlusSkippedIsSubmitted ==
    Returned => added + skipped = Submitted

\* C2: the result holds exactly one status record per index of the addNotes
\* response, in increasing index order; record i is "duplicate" without a
\* noteId iff response[i] is null, else "ok" with noteId = response[i]; and
\* record i describes the draft submitted at position i.
C2_StatusRecordsMirrorResponse ==
    Returned =>
      LET resp == response.value
          st == StatusRecords
          sent == calls[Len(calls)].arg
      IN  /\ Len(st) = Len(resp)
          /\ \A i \in 1..Len(resp) :
               /\ st[i].index = i - 1
               /\ (st[i].status = "duplicate") <=> (resp[i] = null)
               /\ resp[i] = null => "noteId" \notin DOMAIN st[i]
               /\ resp[i] # null =>
                    /\ st[i].status = "ok"
                    /\ "noteId" \in DOMAIN st[i]
                    /\ st[i].noteId = resp[i]
               /\ i <= Submitted
               /\ ("dedup_key" \in DOMAIN st[i])
                     <=> (normalized_notes[i].dedup_key # None)
               /\ "dedup_key" \in DOMAIN st[i]
                     => st[i].dedup_key = normalized_notes[i].dedup_key
               /\ sent[i].deckName = NoteDeck(normalized_notes[i])
               /\ sent[i].modelName = NoteModel(normalized_notes[i])

\* C2 witness: a result for the response [111, null].
C2_Witness ==
    Returned /\ response.value = <<NoteIdAt(1), null>>

\* A draft that cannot pass field validation: its model has no field, or no
\* key of the draft gives the model's first field a non-empty value.
FailsFieldValidation(draft) ==
    LET schema == ModelSchema(IF draft.model # None THEN draft.model ELSE Model)
    IN  \/ schema = <<>>
        \/ ~ \E i \in 1..Len(draft.fields) :
               /\ Lower(draft.fields[i].k) = Lower(schema[1])
               /\ draft.fields[i].v # <<>>

\* C3: an invocation that returns has issued exactly one addNotes call, after
\* every draft was processed, carrying one payload per draft in draft order;
\* an invocation with a draft that fails field validation issues none.
C3_OneAddNotesCallAfterAllDrafts ==
    AddEntry =>
      /\ Cardinality(CallsOf("addNotes")) <= 1
      /\ outcome = "returned" =>
           /\ CallsOf("addNotes") = {Len(calls)}
           /\ index = Submitted
           /\ Len(calls[Len(calls)].arg) = Submitted
           /\ \A k \in 1..Submitted :
                /\ calls[Len(calls)].arg[k].deckName = NoteDeck(normalized_notes[k])
                /\ calls[Len(calls)].arg[k].modelName = NoteModel(normalized_notes[k])
                /\ calls[Len(calls)].arg[k].tags = normalized_notes[k].tags
      /\ (\E i \in 1..Len(request.items) : FailsFieldValidation(request.items[i]))
           => CallsOf("addNotes") = {}

\* C3 witness: a result for two drafts bound for different decks.
C3_Witness ==
    /\ Returned
    /\ Submitted = 2
    /\ NoteDeck(normalized_notes[1]) # NoteDeck(normalized_notes[2])

\* The validation errors of a draft: its fields, or (add_notes) the target
\* field of one of its images.
ValidationError ==
    /\ AddEntry
    /\ outcome = "raised"
    /\ error.type = "ValueError"
    /\ error.msg \in {"Unknown note fields", "Unknown image target field"}

\* C4 as stated: a validation error on any draft is raised before any remote
\* call of the invocation has been issued.
C4_NoRemoteCallBeforeRejection ==
    ValidationError => calls = <<>>

\* C4 amended: a validation error is raised before the addNotes call; a field
\* validation error on draft i is raised before any image download or
\* storeMediaFile call for draft i or a later draft.  The createDeck call for
\* every draft's deck, the modelFieldNames call for the draft's model and the
\* media calls of earlier drafts have been issued by then.
C4_RejectionPrecedesSubmit ==
    ValidationError =>
      /\ CallsOf("addNotes") = {}
      /\ \A d \in EffectiveDecks :
           \E i \in CallsOf("createDeck") : calls[i].arg = d
      /\ \E i \in CallsOf("modelFieldNames") : calls[i].arg = NoteModel(Note)
      /\ error.msg = "Unknown note fields" =>
           \A i \in 1..Len(calls) :
             calls[i].index >= index => calls[i].action = "modelFieldNames"

\* C4 witness: the second draft is rejected after a media file of the first
\* one was stored.
C4_Witness ==
    /\ ValidationError
    /\ error.msg = "Unknown note fields"
    /\ index = 1
    /\ \E i \in CallsOf("storeMediaFile") : calls[i].index = 0

\* C5: when the addNotes call fails the invocation raises addNotes_failed,
\* returns no result (no counts, no status record) and does not issue
\* addNotes again.
C5_SubmitFailureAbortsBatch ==
    (AddEntry /\ response.kind \in {"error", "notlist"}) =>
      /\ outcome = "raised"
      /\ error = AddNotesFailed
      /\ Cardinality(CallsOf("addNotes")) = 1
      /\ StatusRecords = <<>>
      /\ added = 0
      /\ skipped = 0

\* C5 witness: the addNotes call of a batch of two drafts failed.
C5_Witness ==
    AddEntry /\ response.kind = "error" /\ Submitted = 2

\* C6 as stated: every detail record of a draft's index, warnings and infos
\* included, carries the draft's dedup key, and none when the draft has none.
C6_EveryDetailCarriesDedupKey ==
    Returned =>
      \A i \in 1..Len(results) :
        LET key == normalized_notes[results[i].index + 1].dedup_key
        IN  IF key # None
            THEN "dedup_key" \in DOMAIN results[i] /\ results[i].dedup_key = key
            ELSE "dedup_key" \notin DOMAIN results[i]

\* C6 amended: every ok / duplicate record carries the dedup key of the draft
\* at its index unchanged, and none when that draft has none; warning and
\* info records never carry a dedup key.
C6_StatusRecordsCarryDedupKey ==
    Returned =>
      /\ \A i \in 1..Len(StatusRecords) :
           LET key == normalized_notes[StatusRecords[i].index + 1].dedup_key
           IN  IF key # None
               THEN /\ "dedup_key" \in DOMAIN StatusRecords[i]
                    /\ StatusRecords[i].dedup_key = key
               ELSE "dedup_key" \notin DOMAIN StatusRecords[i]
      /\ \A i \in 1..Len(NoticeRecords) :
           "dedup_key" \notin DOMAIN NoticeRecords[i]

\* C6 witness: a result with a duplicate and a warning for drafts that carry
\* a dedup key.
C6_Witness ==
    /\ Returned
    /\ \E i \in 1..Len(StatusRecords) :
         /\ StatusRecords[i].status = "duplicate"
         /\ "dedup_key" \in DOMAIN StatusRecords[i]
    /\ \E i \in 1..Len(NoticeRecords) :
         /\ "warn" \in DOMAIN NoticeRecords[i]
         /\ normalized_notes[NoticeRecords[i].index + 1].dedup_key # None

\* C7: createDeck is issued exactly once for each deck in the union of the
\* drafts' effective decks, for no other deck, and before the addNotes call.
C7_CreateDeckOncePerEffectiveDeck ==
    Returned =>
      /\ \A d \in EffectiveDecks :
           Cardinality({i \in CallsOf("createDeck") : calls[i].arg = d}) = 1
      /\ \A i \in CallsOf("createDeck") : calls[i].arg \in EffectiveDecks
      /\ \A i \in CallsOf("createDeck") : \A j \in CallsOf("addNotes") : i < j

\* C8: modelFieldNames is fetched exactly once per distinct effective model
\* of the drafts, however many drafts share it, and the fetch precedes the
\* validation of the first draft that uses the model.
C8_OneSchemaFetchPerModel ==
    AddEntry =>
      /\ \A i, j \in CallsOf("modelFieldNames") :
           calls[i].arg = calls[j].arg => i = j
      /\ pc = "validate" =>
           \E i \in CallsOf("modelFieldNames") : calls[i].arg = NoteModel(Note)
      /\ outcome = "returned" =>
           {calls[i].arg : i \in CallsOf("modelFieldNames")} = EffectiveModels

\* C8 witness: a result for two drafts of the same model.
C8_Witness ==
    /\ Returned
    /\ Submitted = 2
    /\ NoteModel(normalized_notes[1]) = NoteModel(normalized_notes[2])

\* The parts of C9, stated on the arguments alone.
NoKeyMatches(user_fields, model_fields) ==
    \A i \in 1..Len(user_fields) : \A j \in 1..Len(model_fields) :
      Lower(user_fields[i].k) # Lower(model_fields[j])

\* The value the mapping gives a model field: that of the last key equal to
\* it up to case, "" if there is none.
MappedValue(user_fields, model_field) ==
    LET hits == {i \in 1..Len(user_fields) :
                   Lower(user_fields[i].k) = Lower(model_field)}
    IN  IF hits = {} THEN <<>>
        ELSE user_fields[CHOOSE i \in hits : \A j \in hits : j <= i].v

\* C9: for a non-empty schema normalize_and_validate_note_fields raises
\* ValueError iff no user key matches a schema field up to case or the value
\* mapped to the first schema field is empty; otherwise, unknown user keys or
\* not, it returns the canonical fields.  The error names the unknown user
\* keys, all expected fields and the primary field.
C9_RejectsIffPrimaryMissing ==
    (request.entry = "normalize_and_validate_note_fields" /\ pc = "done"
       /\ request.model_fields # <<>>) =>
      LET u == request.user_fields
          f == request.model_fields
          reject == NoKeyMatches(u, f) \/ MappedValue(u, f[1]) = <<>>
      IN  /\ (outcome = "raised") <=> reject
          /\ outcome = "raised" =>
               /\ error.type = "ValueError"
               /\ \A i \in 1..Len(u) :
                    (\A j \in 1..Len(f) : Lower(u[i].k) # Lower(f[j]))
                      => u[i].k \in Range(error.provided)
               /\ error.expected = f
               /\ error.required = f[1]
          /\ outcome = "returned" =>
               /\ DOMAIN fields = Range(f)
               /\ \A name \in Range(f) : fields[name] = MappedValue(u, name)

\* C9 witness: schema [Front, Back] and input {front: Q, extra: x} give
\* {Front: Q, Back: ""} without an error.
C9_Witness ==
    /\ request.entry = "normalize_and_validate_note_fields"
    /\ request.model_fields = <<"Front", "Back">>
    /\ request.user_fields = <<Item("front", <<"Q">>), Item("extra", <<"x">>)>>
    /\ outcome = "returned"
    /\ fields = [name \in {"Front", "Back"} |->
                   IF name = "Front" THEN <<"Q">> ELSE <<>>]

\* C10: every payload of the addNotes call has exactly the fields of its
\* model's schema as field keys, after canonicalization, data-URL extraction
\* and image embedding.
C10_PayloadKeysAreSchemaFields ==
    AddEntry =>
      /\ \A k \in 1..Len(notes_payload) :
           DOMAIN notes_payload[k].fields
             = Range(ModelSchema(notes_payload[k].modelName))
      /\ \A i \in CallsOf("addNotes") : \A k \in 1..Len(calls[i].arg) :
           DOMAIN calls[i].arg[k].fields
             = Range(ModelSchema(calls[i].arg[k].modelName))

\* C10 witness: addNotes was sent a note built from a draft with an unknown
\* key and a note with an embedded image.
C10_Witness ==
    /\ AddEntry
    /\ \E i \in CallsOf("addNotes") :
         /\ \E k \in 1..Len(calls[i].arg) :
              \E j \in 1..Len(normalized_notes[k].fields) :
                Lower(normalized_notes[k].fields[j].k)
                  \notin {Lower(name) : name \in DOMAIN calls[i].arg[k].fields}
         /\ \E k \in 1..Len(calls[i].arg) :
              \E name \in DOMAIN calls[i].arg[k].fields :
                \E t \in 1..Len(calls[i].arg[k].fields[name]) :
                  calls[i].arg[k].fields[name][t] = build_img_tag("pic.png")

\* C11: normalize_fields_for_model applied to its own canonical output with
\* the same schema returns the same field map, with every schema field
\* matched and no unknown key.
C11_CanonicalizeIsIdempotent ==
    (request.entry = "normalize_fields_for_model" /\ pc = "done") =>
      /\ fields = notes_payload[1]
      /\ index = Len(request.model_fields)
      /\ results = <<>>

\* C11 witness: the second call was made on the output for {front: Q,
\* extra: x} and the schema [Front, Back].
C11_Witness ==
    /\ request.entry = "normalize_fields_for_model"
    /\ pc = "done"
    /\ request.model_fields = <<"Front", "Back">>
    /\ request.user_fields = <<Item("front", <<"Q">>), Item("extra", <<"x">>)>>
    /\ fields = [name \in {"Front", "Back"} |->
                   IF name = "Front" THEN <<"Q">> ELSE <<>>]

\* How many img tags of the file a text holds.
TagCount(text, filename) ==
    Cardinality({i \in 1..Len(text) : text[i] = build_img_tag(filename)})

\* C12 as stated: ensure_img_tag(ensure_img_tag(t, f), f) equals
\* ensure_img_tag(t, f) for every text t and filename f, so a field processed
\* any number of times for one file holds that file's img tag exactly once.
C12_EnsureImgTagExactlyOnce ==
    request.entry = "ensure_img_tag" =>
      \A i \in 1..Len(results) :
        /\ results[i] = results[1]
        /\ TagCount(results[i], request.filename) = 1

\* C12 amended: ensure_img_tag(ensure_img_tag(t, f), f) equals
\* ensure_img_tag(t, f) for every text t and filename f.  A text that does
\* not reference the file holds its img tag exactly once however often it is
\* processed; a text that already references it is returned unchanged, with
\* as many tags of the file as it had.
C12_EnsureImgTagIdempotent ==
    request.entry = "ensure_img_tag" =>
      \A i \in 1..Len(results) :
        /\ results[i] = results[1]
        /\ IF HasSrc(request.existing, request.filename)
           THEN results[i] = request.existing
           ELSE /\ TagCount(results[i], request.filename) = 1
                /\ results[i][Len(results[i])] = build_img_tag(request.filename)
                /\ \A k \in 1..Len(RStrip(request.existing)) :
                     results[i][k] = request.existing[k]

\* C12 witness: a text that ends in blanks and holds another file's tag was
\* processed three times for a file it did not reference.
C12_Witness ==
    /\ request.entry = "ensure_img_tag"
    /\ request.existing = <<build_img_tag("b.png"), "Q", "s">>
    /\ request.filename = "a.png"
    /\ Len(results) = 3
    /\ fields = <<build_img_tag("b.png"), "Q", "nn", build_img_tag("a.png")>>

\* The data-URI matches process_data_urls_in_fields finds, field after
\* field: the field, the matched text, and whether it is the whole value.
RECURSIVE MatchList(_, _)
MatchList(flds, keys) ==
    IF keys = <<>> THEN <<>>
    ELSE LET raw == flds[Head(keys)]
             whole == InlineMatches(raw) = <<>>
             value == IF whole THEN Strip(raw) ELSE raw
             ms == IF whole THEN WholeMatches(Strip(raw)) ELSE InlineMatches(raw)
         IN  [j \in 1..Len(ms) |->
                [key |-> Head(keys), text |-> MatchText(value, ms[j]),
                 whole |-> whole]]
             \o MatchList(flds, Tail(keys))

Sanitizable(m) == sanitize_image_payload(m.text).ok

\* The storeMediaFile call made for the j-th match, when it is sanitizable.
CallNo(ms, j) == Cardinality({i \in 1..j : Sanitizable(ms[i])})

\* The j-th match fails: its payload is no base64 or its store call raised.
MatchFailed(ms, j, storeOk) ==
    ~Sanitizable(ms[j]) \/ ~storeOk[CallNo(ms, j)]

FileOf(m) ==
    LET clean == sanitize_image_payload(m.text)
    IN  "img_" \o Sha1(B64Decode(clean.clean_b64)) \o "." \o clean.ext

\* The texts of the failed matches of one field, in order.
FailedTexts(ms, key, storeOk) ==
    LET idx == SelectSeq([j \in 1..Len(ms) |-> j],
                         LAMBDA j : ms[j].key = key /\ MatchFailed(ms, j, storeOk))
    IN  [n \in 1..Len(idx) |-> ms[idx[n]].text]

\* C13: when a data-URI match of a field fails (sanitize, decode or store),
\* a warning for the note index is recorded and the match stays in the
\* field text, while every other match of this and of the other fields is
\* stored, removed from the text and given its img tag; the function does
\* not raise.
C13_FailedMatchIsIsolated ==
    (request.entry = "process_data_urls_in_fields" /\ pc = "done") =>
      LET ms == MatchList(request.fields, request.keys)
          storeOk == response.value
      IN  /\ outcome = "returned"
          /\ Len(results) = Len(ms)
          /\ \A j \in 1..Len(ms) :
               results[j] =
                 IF MatchFailed(ms, j, storeOk)
                 THEN [index |-> request.note_index,
                       warn |-> "data_url_failed:" \o ms[j].key]
                 ELSE [index |-> request.note_index,
                       info |-> "data_url_saved:" \o ms[j].key \o "->"
                                  \o FileOf(ms[j])]
          /\ Len(calls) = CallNo(ms, Len(ms))
          /\ \A j \in 1..Len(ms) :
               Sanitizable(ms[j]) =>
                 /\ calls[CallNo(ms, j)].action = "storeMediaFile"
                 /\ calls[CallNo(ms, j)].arg = FileOf(ms[j])
          /\ \A key \in DOMAIN request.fields :
               LET mine == {j \in 1..Len(ms) : ms[j].key = key}
               IN  IF mine = {} THEN fields[key] = request.fields[key]
                   ELSE
                     /\ \A j \in mine :
                          ~MatchFailed(ms, j, storeOk) =>
                            TagCount(fields[key], FileOf(ms[j])) = 1
                     /\ \A j \in mine :
                          ms[j].whole =>
                            fields[key] =
                              IF MatchFailed(ms, j, storeOk)
                              THEN Strip(request.fields[key])
                              ELSE <<build_img_tag(FileOf(ms[j]))>>
                     /\ \A j \in mine :
                          ~ms[j].whole =>
                            /\ SelectSeq(fields[key],
                                         LAMBDA t : t \in DataUrlTokens
                                                    /\ DataUrlParts(t).inline)
                                 = FailedTexts(ms, key, storeOk)
                            /\ SelectSeq(fields[key], LAMBDA t : t = "Q")
                                 = SelectSeq(request.fields[key],
                                             LAMBDA t : t = "Q")

\* C13 witness: the store of the first of two data URIs of Front failed;
\* the second one and the one of Back were stored and tagged.
C13_Witness ==
    /\ request.entry = "process_data_urls_in_fields"
    /\ pc = "done"
    /\ request.fields.Front = <<"data:png:G", "Q", "data:jpeg:H">>
    /\ request.fields.Back = <<"data:png:G">>
    /\ response.value = <<FALSE, TRUE, TRUE>>
    /\ fields.Front = <<"data:png:G", "Q", "nn", build_img_tag("img_sha1H.jpg")>>
    /\ fields.Back = <<build_img_tag("img_sha1G.png")>>
    /\ results[1] = [index |-> 1, warn |-> "data_url_failed:Front"]

\* The target field of an image matches no field of the note's model.
Unresolved(note, im) ==
    \A i \in 1..Len(ModelSchema(NoteModel(note))) :
      Lower(ModelSchema(NoteModel(note))[i]) # Lower(im.target_field)

\* The images the loops have gone past: <<k, j>> is image j of draft k.
PassedImages ==
    { kj \in (1..Submitted) \X (1..3) :
        /\ kj[2] <= Len(normalized_notes[kj[1]].images)
        /\ \/ kj[1] <= Len(notes_payload)
           \/ /\ kj[1] = index + 1
              /\ kj[2] <= img
              /\ \/ pc = "images"
                 \/ /\ outcome = "raised"
                    /\ error.msg = "Unknown image target field" }

ImageStep ==
    /\ AddEntry
    /\ pc = "images"
    /\ img < Len(Note.images)
    /\ (img' # img \/ outcome' # outcome)

\* The turn ended with a warning about the image's source.
SourceWarned ==
    /\ Len(results') = Len(results) + 1
    /\ "warn" \in DOMAIN results'[Len(results')]
    /\ results'[Len(results')].warn
         \in {"invalid_image_base64", "fetch_image_failed", "no_image_provided"}

UnresolvedTargetStep ==
    (ImageStep /\ Unresolved(Note, Note.images[img + 1])) =>
      LET im == Note.images[img + 1]
      IN  IF SourceWarned
          THEN outcome' = "running" /\ img' = img + 1 /\ fields' = fields
          ELSE IF request.entry = "add_notes"
          THEN /\ outcome' = "raised"
               /\ error' = [type |-> "ValueError",
                            msg |-> "Unknown image target field",
                            field |-> im.target_field, index |-> index,
                            allowed |-> ModelSchema(NoteModel(Note))]
               /\ results' = results
               /\ \A c \in 1..Len(calls') : calls'[c].action # "addNotes"
               /\ \A c \in (Len(calls) + 1)..Len(calls') :
                    calls'[c].action # "storeMediaFile"
          ELSE /\ outcome' = "running"
               /\ results' = Append(results,
                     [index |-> index, warn |-> "unknown_target_field",
                      field |-> im.target_field])
               /\ fields' = fields
               /\ img' = img + 1
               /\ \A c \in (Len(calls) + 1)..Len(calls') :
                    calls'[c].action # "storeMediaFile"

C15_AddNotesWarnsOnUnknownTarget ==
    request.entry = "add_notes" =>
      /\ ~ (/\ outcome = "raised"
            /\ error.type = "ValueError"
            /\ error.msg = "Unknown image target field")
      /\ \A kj \in PassedImages :
           LET note == normalized_notes[kj[1]]
               im == note.images[kj[2]]
           IN  (Unresolved(note, im) /\ sanitize_image_payload(im.image_base64).ok)
                 => \E r \in 1..Len(results) :
                      /\ "warn" \in DOMAIN results[r]
                      /\ results[r].warn = "unknown_target_field"
                      /\ results[r].index = kj[1] - 1
                      /\ results[r].field = im.target_field

\* An inline payload that is no base64, bare or inside a data URI.
InvalidPayload(payload) ==
    IF payload \in DataUrlTokens
    THEN B64Decode(DataUrlParts(payload).payload) = None
    ELSE B64Decode(payload) = None

\* The turn only added the warning w for the current draft.
OnlyWarned(w) ==
    /\ results' = Append(results, [index |-> index, warn |-> w])
    /\ outcome' = "running"
    /\ error' = error
    /\ pc' = "images"
    /\ img' = img + 1
    /\ fields' = fields
    /\ notes_payload' = notes_payload

ImageFailureStep ==
    ImageStep =>
      LET im == Note.images[img + 1]
          grown == Len(results') = Len(results) + 1
          last == results'[Len(results')]
      IN  /\ (Truthy(im.image_base64) /\ InvalidPayload(im.image_base64))
               => OnlyWarned("invalid_image_base64")
          /\ (~Truthy(im.image_base64) /\ ~Truthy(im.image_url))
               => OnlyWarned("no_image_provided")
          /\ (grown /\ last.warn = "fetch_image_failed")
               => OnlyWarned("fetch_image_failed")
          /\ (grown /\ last.warn = "store_media_failed")
               => OnlyWarned("store_media_failed")
          /\ outcome' = "raised"
               => /\ request.entry = "add_notes"
                  /\ Unresolved(Note, im)
                  /\ error'.msg = "Unknown image target field"

ImageWarnings ==
    {"invalid_image_base64", "fetch_image_failed", "no_image_provided",
     "store_media_failed", "unknown_target_field"}

\* The records of draft k whose key `kind` ("warn" or "info") is in `texts`.
RecordsOf(k, kind, texts) ==
    {r \in 1..Len(results) :
       /\ kind \in DOMAIN results[r]
       /\ results[r].index = k - 1
       /\ results[r][kind] \in texts}

\* The img tags a payload holds, as <<field, position>> pairs.
ImgTagsIn(flds) ==
    {fp \in (DOMAIN flds) \X (1..8) :
       /\ fp[2] <= Len(flds[fp[1]])
       /\ flds[fp[1]][fp[2]]
            \notin {"Q", "A", "x", "s", "nn", "U", "A(U)"} \cup DataUrlTokens}

\* C16: a failure to sanitize, download or store an explicit image, or an
\* image with neither inline data nor URL, only adds a warning record for
\* the note index: the invocation does not raise, the note is still in the
\* addNotes payload with the target field not modified by that image, and
\* the other images and notes are processed normally.
C16_ImageFailureOnlyWarns ==
    /\ [][ImageFailureStep]_vars
    /\ [](Returned =>
            LET sent == calls[Len(calls)].arg
            IN  /\ Len(sent) = Submitted
                /\ \A k \in 1..Submitted :
                     Cardinality(ImgTagsIn(sent[k].fields))
                         + Cardinality(RecordsOf(k, "warn", ImageWarnings))
                       = Len(normalized_notes[k].images)
                         + Cardinality({r \in 1..Len(results) :
                                          /\ "info" \in DOMAIN results[r]
                                          /\ results[r].index = k - 1}))

\* C16 witness: of the two images of the first draft the first could not be
\* stored and the second was embedded; the second draft was added too.
C16_Witness ==
    /\ Returned
    /\ Submitted = 2
    /\ added = 2
    /\ Len(normalized_notes[1].images) = 2
    /\ results[1] = [index |-> 0, warn |-> "store_media_failed"]
    /\ RecordsOf(1, "warn", ImageWarnings) = {1}
    /\ Cardinality(ImgTagsIn(calls[Len(calls)].arg[1].fields)) = 1

UpdateEntry == request.entry = "update_notes"

\* update_notes has its notesInfo answer and is at, or past, its loop.
Fetched == UpdateEntry /\ response.kind = "list"

\* The batch fetch returned no state for the k-th requested note: every
\* answer paired with its id is null.
NoState(k) ==
    \A p \in 1..Len(normalized_notes) :
      (p <= Len(NoteIds) /\ NoteIds[p] = NoteIds[k]) => ~normalized_notes[p].found

\* The positions of the calls made for the k-th requested note.
CallsFor(k) == {c \in 1..Len(calls) : calls[c].index = k - 1}

\* The details of the k-th requested note.
DetailsFor(k) == {r \in 1..Len(results) : results[r].index = k - 1}

\* The loop has finished the k-th requested note.
Finished(k) == k <= index \/ (outcome = "returned" /\ k <= Len(request.notes))

NotFoundStep ==
    (Fetched /\ pc = "updPrepare" /\ NoState(index + 1)) =>
      /\ results' = Append(results,
            [index |-> index, noteId |-> NoteIds[index + 1],
             status |-> "not_found"])
      /\ skipped' = skipped + 1
      /\ added' = added
      /\ calls' = calls
      /\ index' = index + 1

\* C17: a requested note for which the batch fetch returned no state gets
\* exactly one detail, of status not_found, is counted in skipped, and no
\* remote call of any kind is issued for it, whatever changes were
\* requested.
C17_NotFoundIsTerminal ==
    /\ [][NotFoundStep]_vars
    /\ [](Fetched =>
            \A k \in 1..Len(request.notes) :
              NoState(k) =>
                /\ CallsFor(k) = {}
                /\ Finished(k) =>
                     /\ DetailsFor(k) = {k}
                     /\ results[k].status = "not_found"
                     /\ results[k].noteId = NoteIds[k])

\* C17 witness: of two requested notes the first, asked to change fields,
\* tags, deck and an image, was not found, and the second was updated.
C17_Witness ==
    /\ UpdateEntry
    /\ outcome = "returned"
    /\ Len(request.notes) = 2
    /\ request.notes[1].images # <<>>
    /\ results[1].status = "not_found"
    /\ results[2].status = "ok"
    /\ skipped = 1
    /\ added = 1

\* The schema of a fetched note: its own field keys, or, when it came
\* without fields, the field names of its model.
OwnSchema(info) ==
    IF info.fields # <<>> THEN InfoFieldNames(info)
    ELSE ModelSchema(InfoModel(info))

\* The keys of the k-th patch that match no field of the note's schema.
UnknownKeys(k) ==
    LET patch == request.notes[k].fields
        schema == OwnSchema(NotesStore(NoteIds[k]))
    IN  {patch[i].k : i \in {j \in 1..Len(patch) :
                               \A f \in 1..Len(schema) :
                                 Lower(schema[f]) # Lower(patch[j].k)}}

MutationActions ==
    {"storeMediaFile", "updateNoteFields", "addTags", "removeTags", "changeDeck"}

UnknownFieldsStep ==
    (Fetched /\ pc = "updPrepare" /\ ~NoState(index + 1)
       /\ UnknownKeys(index + 1) # {} /\ outcome' # "raised") =>
      /\ Len(results') = Len(results) + 1
      /\ skipped' = skipped + 1
      /\ added' = added
      /\ index' = index + 1
      /\ \A c \in (Len(calls) + 1)..Len(calls') :
           calls'[c].action = "modelFieldNames"

\* C18: if a key of a note's field patch matches no field of the note's own
\* schema, the note ends with status error listing the unknown keys, is
\* counted in skipped, and no storeMediaFile, updateNoteFields, addTags,
\* removeTags or changeDeck call is issued for it, even when tag or deck
\* changes were requested too.
C18_UnknownFieldsNoMutation ==
    /\ [][UnknownFieldsStep]_vars
    /\ [](Fetched =>
            \A k \in 1..Len(request.notes) :
              (~NoState(k) /\ UnknownKeys(k) # {}) =>
                /\ \A c \in CallsFor(k) : calls[c].action \notin MutationActions
                /\ Finished(k) =>
                     /\ DetailsFor(k) = {k}
                     /\ results[k].status = "error"
                     /\ results[k].error.type = "unknown_fields"
                     /\ UnknownKeys(k) \subseteq Range(results[k].error.fields))

\* C18 witness: the first note's patch holds the unknown key Nope besides
\* Front, with a tag, a deck and an image requested; the second was updated.
C18_Witness ==
    /\ UpdateEntry
    /\ outcome = "returned"
    /\ Len(request.notes) = 2
    /\ Len(request.notes[1].fields) = 2
    /\ request.notes[1].images # <<>>
    /\ results[1].status = "error"
    /\ results[1].error.fields = <<"Nope">>
    /\ results[2].status = "ok"
    /\ skipped = 1

\* The k-th note was found and its patch is given, but none of its keys
\* matches a field of the note's schema.
ZeroMatched(k) ==
    /\ ~NoState(k)
    /\ request.notes[k].fields # <<>>
    /\ NoKeyMatches(request.notes[k].fields, OwnSchema(NotesStore(NoteIds[k])))

\* C19: when a field patch is given and none of its keys matches the note's
\* schema, the note is marked noop and processing goes on to the tag and
\* deck phase: the requested addTags, removeTags and changeDeck calls are
\* still issued for it.
C19_ZeroMatchedContinuesToTags ==
    Fetched =>
      \A k \in 1..Len(request.notes) :
        (ZeroMatched(k) /\ Finished(k)) =>
          /\ results[k].status \in {"noop", "ok"}
              \/ (results[k].status = "error"
                    /\ results[k].error.type = "exception")
          /\ results[k].status # "error" =>
               /\ request.notes[k].add_tags # <<>>
                    => \E c \in CallsFor(k) : calls[c].action = "addTags"
               /\ request.notes[k].remove_tags # <<>>
                    => \E c \in CallsFor(k) : calls[c].action = "removeTags"

\* The place of a mutation call in the order of the try block.
Rank(action) ==
    CASE action = "updateNoteFields" -> 1
      [] action = "addTags" -> 2
      [] action = "removeTags" -> 3
      [] action = "changeDeck" -> 4
      [] OTHER -> 0

\* C20: update_notes issues exactly one notesInfo call, with all requested
\* ids in request order, before any other remote call; then, note by note
\* in request order, the mutation calls in the order updateNoteFields,
\* addTags, removeTags, changeDeck, each at most once and only when its
\* change is not empty; all calls of a note precede those of the next one.
C20_CallOrder ==
    (UpdateEntry /\ pc # "start") =>
      /\ calls[1].action = "notesInfo"
      /\ calls[1].arg = NoteIds
      /\ \A c \in 2..Len(calls) :
           /\ calls[c].action # "notesInfo"
           /\ calls[c].index >= 0
           /\ calls[c - 1].index <= calls[c].index
      /\ \A c, d \in 2..Len(calls) :
           (c < d /\ calls[c].index = calls[d].index /\ Rank(calls[d].action) > 0)
             => Rank(calls[c].action) < Rank(calls[d].action)
      /\ \A c \in 2..Len(calls) :
           LET update == request.notes[calls[c].index + 1]
               info == NotesStore(update.note_id)
           IN  /\ Rank(calls[c].action) > 0 => calls[c].arg = update.note_id
               /\ calls[c].action = "updateNoteFields"
                    => /\ DOMAIN calls[c].data # {}
                       /\ update.fields # <<>> \/ update.images # <<>>
               /\ calls[c].action = "addTags"
                    => update.add_tags # <<>> /\ calls[c].data = update.add_tags
               /\ calls[c].action = "removeTags"
                    => update.remove_tags # <<>>
                         /\ calls[c].data = update.remove_tags
               /\ calls[c].action = "changeDeck"
                    => /\ Truthy(update.deck)
                       /\ update.deck # info.deck_name
                       /\ calls[c].data.deck = update.deck
                       /\ calls[c].data.cards = info.cards
                       /\ info.cards # <<>>

\* C20 witness: two notes were each given a patch, tags to add and to
\* remove and a new deck: notesInfo, then the four calls of the first note,
\* then the four calls of the second.
C20_Witness ==
    /\ UpdateEntry
    /\ outcome = "returned"
    /\ added = 2
    /\ [c \in 1..Len(calls) |-> calls[c].action]
         = << "notesInfo",
              "updateNoteFields", "addTags", "removeTags", "changeDeck",
              "updateNoteFields", "addTags", "removeTags", "changeDeck" >>
    /\ [c \in 1..Len(calls) |-> calls[c].index] = <<-1, 0, 0, 0, 0, 1, 1, 1, 1>>

\* The key a mutation call that came back leaves in the detail of its note.
Marker(action) ==
    CASE action = "addTags" -> "addedTags"
      [] action = "removeTags" -> "removedTags"
      [] action = "changeDeck" -> "deckChangedTo"
      [] OTHER -> "updatedFields"

\* The try block of the current note is about to run.
AtTryBlock == UpdateEntry /\ pc = "updImages" /\ img = Len(Update.images)

\* The try block of one note: it issues mutation calls of that note only
\* and closes the note with one detail; when the detail says error, every
\* call but the last came back and the last did not, so none followed the
\* one that raised; the invocation goes on with the next note, and what the
\* next notes go by (the fetched states, the schema caches) is untouched.
MutationFailureStep ==
    AtTryBlock =>
      LET new == SubSeq(calls', Len(calls) + 1, Len(calls'))
          detail == results'[Len(results')]
      IN  /\ Len(results') = Len(results) + 1
          /\ SubSeq(results', 1, Len(results)) = results
          /\ SubSeq(calls', 1, Len(calls)) = calls
          /\ detail.index = index
          /\ detail.noteId = Update.note_id
          /\ index' = index + 1
          /\ outcome' = IF index + 1 < Len(request.notes)
                        THEN "running" ELSE "returned"
          /\ error' = error
          /\ UNCHANGED << request, normalized_notes, model_fields_cache,
                          canonical_field_map_cache, fields, img, notes_payload >>
          /\ \A j \in 1..Len(new) :
               /\ Rank(new[j].action) > 0
               /\ new[j].index = index
               /\ \A i \in 1..(j - 1) : Rank(new[i].action) < Rank(new[j].action)
          /\ detail.status = "error" =>
               /\ new # <<>>
               /\ detail.error.type = "exception"
               /\ skipped' = skipped + 1
               /\ added' = added
               /\ \A j \in 1..(Len(new) - 1) :
                    new[j].action # "updateNoteFields"
                      => Marker(new[j].action) \in DOMAIN detail
               /\ new[Len(new)].action # "updateNoteFields"
                    => Marker(new[Len(new)].action) \notin DOMAIN detail

\* C21: when a mutation call of a note raises, no later mutation call is
\* issued for that note and its status is error; the other notes of the
\* batch are processed as if the failure had not happened, and update_notes
\* still returns one detail per requested note.
C21_MutationFailureIsIsolated ==
    /\ [][MutationFailureStep]_vars
    /\ []((UpdateEntry /\ outcome = "returned") =>
            /\ Len(results) = Len(request.notes)
            /\ \A k \in 1..Len(results) :
                 /\ results[k].index = k - 1
                 /\ results[k].noteId = NoteIds[k])

\* C21 witness: addTags of the first note raised after its fields were
\* updated, its removeTags and changeDeck were never issued, and the second
\* note, asked the same, got all four calls and status ok.
C21_Witness ==
    /\ UpdateEntry
    /\ outcome = "returned"
    /\ Len(request.notes) = 2
    /\ request.notes[1] = request.notes[2]
    /\ results[1].status = "error"
    /\ results[1].error.type = "exception"
    /\ results[2].status = "ok"
    /\ [c \in 1..Len(calls) |-> calls[c].action]
         = << "notesInfo", "updateNoteFields", "addTags",
              "updateNoteFields", "addTags", "removeTags", "changeDeck" >>

\* The k-th note was found, its patch has no unknown key, and it was closed
\* without a mutation call raising.
CleanlyFinished(k) ==
    /\ Finished(k)
    /\ ~NoState(k)
    /\ UnknownKeys(k) = {}
    /\ results[k].status # "error"

\* The mutation calls issued for the k-th note.
MutationsFor(k) == {c \in CallsFor(k) : Rank(calls[c].action) > 0}

\* The warnings logged in a detail.
WarningsOf(detail) ==
    IF "logs" \in DOMAIN detail
    THEN {detail.logs[i].warn :
            i \in {j \in 1..Len(detail.logs) : "warn" \in DOMAIN detail.logs[j]}}
    ELSE {}

\* C22: a found note with no unknown fields and no failing mutation call
\* ends ok if and only if at least one of updateNoteFields, addTags,
\* removeTags, changeDeck was issued for it, and noop otherwise; a deck
\* change asked for a note without known cards, or to the deck the note is
\* in, issues no changeDeck and does not count, the missing cards being
\* recorded as a no_cards_for_deck_change warning only.
C22_OkIffOperationIssued ==
    Fetched =>
      \A k \in 1..Len(request.notes) :
        CleanlyFinished(k) =>
          LET update == request.notes[k]
              info == NotesStore(update.note_id)
              idle == info.cards = <<>> \/ update.deck = info.deck_name
          IN  /\ results[k].status \in {"ok", "noop"}
              /\ results[k].status = "ok" <=> MutationsFor(k) # {}
              /\ (Truthy(update.deck) /\ idle) =>
                   /\ \A c \in CallsFor(k) : calls[c].action # "changeDeck"
                   /\ "deckChangedTo" \notin DOMAIN results[k]
              /\ "no_cards_for_deck_change" \in WarningsOf(results[k])
                   <=> /\ Truthy(update.deck)
                       /\ update.deck # info.deck_name
                       /\ info.cards = <<>>

\* C22 witness: the first note was only asked to move to another deck and
\* has no cards (noop, with the warning), the second was asked to move to
\* the deck it is in while none of its images got attached (noop), and
\* neither got a mutation call.
C22_Witness ==
    /\ UpdateEntry
    /\ outcome = "returned"
    /\ Len(request.notes) = 2
    /\ request.notes[1] = NoteUpdate("2", <<>>, <<>>, <<>>, "Target", <<>>)
    /\ request.notes[2].deck = "Default"
    /\ results[1].status = "noop"
    /\ WarningsOf(results[1]) = {"no_cards_for_deck_change"}
    /\ results[2].status = "noop"
    /\ MutationsFor(1) = {}
    /\ MutationsFor(2) = {}
    /\ skipped = 2

\* The number of details with one of the given statuses.
CountStatus(statuses) ==
    Cardinality({k \in 1..Len(results) : results[k].status \in statuses})

\* C23: the result of update_notes over N requested notes holds exactly one
\* detail per requested note, in request order; updated is the number of
\* details with status ok, skipped the number of those with status
\* not_found, noop or error, and updated + skipped = N.
C23_UpdatedAndSkippedCountDetails ==
    (UpdateEntry /\ outcome = "returned") =>
      /\ Len(results) = Len(request.notes)
      /\ \A k \in 1..Len(results) :
           /\ results[k].index = k - 1
           /\ results[k].noteId = request.notes[k].note_id
           /\ results[k].status \in {"ok", "not_found", "noop", "error"}
      /\ added = CountStatus({"ok"})
      /\ skipped = CountStatus({"not_found", "noop", "error"})
      /\ added + skipped = Len(request.notes)

\* C23 witness: of two notes one was left as it was and one was updated.
C23_Witness ==
    /\ UpdateEntry
    /\ outcome = "returned"
    /\ Len(request.notes) = 2
    /\ results[1].status = "noop"
    /\ results[2].status = "ok"
    /\ added = 1
    /\ skipped = 1

\* The fetched state of the k-th requested note carries no model name.
NoModelName(k) == ~NoState(k) /\ ~Truthy(NotesStore(NoteIds[k]).model_name)

\* The field keys of the k-th note that a key of its patch names, whatever
\* the case of the letters.
PatchedOwnKeys(k) ==
    LET patch == request.notes[k].fields
        own == InfoFieldNames(NotesStore(NoteIds[k]))
    IN  {own[f] : f \in {g \in 1..Len(own) :
                           \E i \in 1..Len(patch) :
                             Lower(patch[i].k) = Lower(own[g])}}

\* C24: a field patch goes by the schema of the note being updated, never
\* by a batch default: for a note fetched without a model name the schema
\* is the note's own field keys, no modelFieldNames call is issued, and a
\* patch whose keys match those field keys whatever the case is applied
\* with updateNoteFields instead of failing.
C24_EmptyModelUsesOwnFieldKeys ==
    Fetched =>
      \A k \in 1..Len(request.notes) :
        /\ ~NoState(k) =>
             \A c \in CallsFor(k) :
               calls[c].action = "updateNoteFields"
                 => DOMAIN calls[c].data
                      \subseteq Range(OwnSchema(NotesStore(NoteIds[k])))
        /\ NoModelName(k) =>
             /\ \A c \in CallsFor(k) : calls[c].action # "modelFieldNames"
             /\ Finished(k) =>
                  /\ results[k].model = ""
                  /\ (request.notes[k].fields # <<>> /\ UnknownKeys(k) = {}) =>
                       /\ results[k].status = "ok"
                            \/ (results[k].status = "error"
                                  /\ results[k].error.type = "exception")
                       /\ \E c \in CallsFor(k) :
                            /\ calls[c].action = "updateNoteFields"
                            /\ PatchedOwnKeys(k) \subseteq DOMAIN calls[c].data
                       /\ Range(results[k].updatedFields) = PatchedOwnKeys(k)

\* C24 witness: two notes without a model name and with different field
\* keys were patched in one batch, each through its own keys.
C24_Witness ==
    /\ UpdateEntry
    /\ outcome = "returned"
    /\ NoteIds = <<"2", "5">>
    /\ results[1].status = "ok"
    /\ results[2].status = "ok"
    /\ results[1].updatedFields = <<"Text">>
    /\ results[2].updatedFields = <<"Extra">>
    /\ \E c \in CallsFor(2) : /\ calls[c].action = "updateNoteFields"
                               /\ DOMAIN calls[c].data = {"Extra"}

\* Everything invocation i holds: the locals of its frame and its call log.
Frame(i) ==
    << request[i], pc[i], outcome[i], error[i], normalized_notes[i],
       decks_to_create[i], decks_pending[i], model_fields_cache[i],
       canonical_field_map_cache[i], index[i], notes_payload[i], results[i],
       added[i], skipped[i], response[i], calls[i] >>

\* A step changes what one invocation holds, and nothing of the others.
OneFrameStep ==
    \A i, j \in Invocations :
      (i # j /\ Frame(i)' # Frame(i)) => Frame(j)' = Frame(j)

\* The arguments of the calls of one action that invocation i issued.
ArgsBy(i, action) ==
    LET made == SelectSeq(calls[i], LAMBDA c : c.action = action)
    IN  [k \in 1..Len(made) |-> made[k].arg]

\* The sequence names each member of the set exactly once.
ExactlyOnce(seq, S) == Range(seq) = S /\ Len(seq) = Cardinality(S)

\* The first note of an add request that fails validation against the
\* field list of its model, 0 if none does.
FirstInvalid(req) ==
    LET bad == {k \in 1..Len(req.items) :
                  ~normalize_and_validate_note_fields(
                      req.items[k].fields,
                      ModelSchema(ModelOfNote(req, req.items[k]))).ok}
    IN  IF bad = {} THEN 0 ELSE CHOOSE k \in bad : \A j \in bad : k <= j

\* What add_notes / add_from_model running alone leaves behind for the
\* request and the addNotes answer of invocation i.
AloneAdd(i) ==
    LET req == request[i]
        bad == FirstInvalid(req)
        reached == IF bad = 0 THEN Len(req.items) ELSE bad
        decks == DecksOf(DeckOfRequest(req), req.items)
        payload == [k \in 1..Len(req.items) |->
                      [deckName |-> DeckOfNote(req, req.items[k]),
                       modelName |-> ModelOfNote(req, req.items[k]),
                       fields |-> AutoLinkSources(
                           normalize_and_validate_note_fields(
                               req.items[k].fields,
                               ModelSchema(ModelOfNote(req, req.items[k]))).fields),
                       tags |-> req.items[k].tags,
                       options |-> [allowDuplicate |-> FALSE]]]
        resp == response[i].value
    IN  /\ ExactlyOnce(ArgsBy(i, "modelFieldNames"),
                       {ModelOfNote(req, req.items[k]) : k \in 1..reached})
        /\ Range(ArgsBy(i, "createDeck")) = decks
        /\ Len(ArgsBy(i, "createDeck"))
             = Cardinality(decks) + (IF req.entry = "add_from_model" THEN 1 ELSE 0)
        /\ IF bad # 0
           THEN /\ outcome[i] = "raised"
                /\ error[i].type = "ValueError"
                /\ results[i] = <<>>
                /\ ArgsBy(i, "addNotes") = <<>>
           ELSE /\ outcome[i] = "returned"
                /\ ArgsBy(i, "addNotes") = <<payload>>
                /\ results[i] = ResponseDetails(resp, req.items)
                /\ skipped[i] = CountNull(resp, Len(resp))
                /\ added[i] = Len(resp) - CountNull(resp, Len(resp))

\* The status update_notes running alone gives one requested note when no
\* remote call fails.
AloneStatus(update) ==
    LET info == NotesStore(update.note_id)
        schema == OwnSchema(info)
        unknown == \E p \in 1..Len(update.fields) :
                     \A f \in 1..Len(schema) :
                       Lower(schema[f]) # Lower(update.fields[p].k)
    IN  IF ~info.found THEN "not_found"
        ELSE IF unknown THEN "error"
        ELSE IF \/ update.fields # <<>>
                \/ update.add_tags # <<>>
                \/ update.remove_tags # <<>>
                \/ (Truthy(update.deck) /\ update.deck # info.deck_name
                      /\ info.cards # <<>>)
        THEN "ok" ELSE "noop"

\* What update_notes running alone leaves behind for the request of
\* invocation i.
AloneUpdate(i) ==
    LET req == request[i]
        statuses == [k \in 1..Len(req.notes) |-> AloneStatus(req.notes[k])]
        infos == {NotesStore(req.notes[k].note_id) : k \in 1..Len(req.notes)}
    IN  /\ outcome[i] = "returned"
        /\ ExactlyOnce(ArgsBy(i, "modelFieldNames"),
                       {info.model_name :
                          info \in {n \in infos : n.found /\ n.fields = <<>>
                                                     /\ Truthy(n.model_name)}})
        /\ Len(ArgsBy(i, "notesInfo")) = 1
        /\ [k \in 1..Len(results[i]) |-> results[i][k].status] = statuses
        /\ added[i] = Cardinality({k \in 1..Len(statuses) : statuses[k] = "ok"})
        /\ added[i] + skipped[i] = Len(req.notes)

\* C25: top-level invocations interleaved at their await points share no
\* mutable state: a step of one never changes the schema cache, deck set,
\* payload list or result list of another, each invocation fetches the
\* schema of every model it uses itself, and its result is the one it
\* would have produced alone against the same remote answers.
C25_InvocationsShareNoState ==
    /\ [][OneFrameStep]_vars
    /\ [](\A i \in Invocations :
            /\ request[i].entry # "update_notes"
                 => DOMAIN model_fields_cache[i]
                      \subseteq Range(ArgsBy(i, "modelFieldNames"))
            /\ outcome[i] # "running" =>
                 IF request[i].entry = "update_notes"
                 THEN AloneUpdate(i) ELSE AloneAdd(i))

\* C25 witness: two invocations were handed the same two notes; the first
\* has returned with both schemas in its cache, and the second, having
\* fetched the first schema itself, is awaiting the second one.
C25_Witness ==
    /\ DOMAIN request = Invocations
    /\ request[1] = request[2]
    /\ request[1].entry = "add_notes"
    /\ outcome[1] = "returned"
    /\ DOMAIN model_fields_cache[1] = {"Basic", "Cloze"}
    /\ pc[2] = "awaitFields"
    /\ DOMAIN model_fields_cache[2] = {"Basic"}
    /\ ArgsBy(2, "modelFieldNames") = <<"Basic", "Cloze">>

\* C26: add_notes / add_from_model build the per-item outcomes only from an
\* addNotes response as long as the list of submitted notes: a shorter or a
\* longer response makes the invocation fail, so that no result is returned
\* with per-note records missing.
C26_ResponseLengthIsChecked ==
    (AddEntry /\ response.kind = "list") =>
      /\ Len(response.value) # Submitted => outcome = "raised"
      /\ outcome = "returned" =>
           /\ Len(StatusRecords) = Submitted
           /\ \A k \in 1..Submitted : StatusRecords[k].index = k - 1

\* The value is one data URI whose base64 payload is broken over several
\* lines: the URI up to the first line break, then base64 lines.
PayloadWithLineBreaks(value) ==
    /\ Len(value) >= 3
    /\ Len(value) % 2 = 1
    /\ value[1] \in DataUrlTokens
    /\ DataUrlParts(value[1]).inline
    /\ B64Decode(DataUrlParts(value[1]).payload) # None
    /\ \A p \in 2..Len(value) :
         value[p] = IF p % 2 = 0 THEN "nn" ELSE Base64Line

\* The bytes the whole payload stands for: those of the first line, then
\* those of every further line.
RECURSIVE LineBytes(_)
LineBytes(n) == IF n = 0 THEN "" ELSE "H" \o LineBytes(n - 1)

OriginalBytes(value) ==
    B64Decode(DataUrlParts(value[1]).payload) \o LineBytes((Len(value) - 1) \div 2)

\* C27: for a field whose value is a data URI with line breaks inside its
\* base64 payload, process_data_urls_in_fields stores exactly one media
\* file, named img_<sha1 of the decoded bytes>.<ext> and holding the
\* whitespace-free base64 of the original bytes, records one
\* data_url_saved info and no warning, and leaves no part of the data URI
\* in the field.
C27_LineBreaksInPayloadTolerated ==
    (/\ request.entry = "process_data_urls_in_fields"
     /\ pc = "done"
     /\ DOMAIN request.fields = {"Image"}
     /\ PayloadWithLineBreaks(request.fields.Image)
     /\ \A n \in DOMAIN response.value : response.value[n]) =>
      LET raw == OriginalBytes(request.fields.Image)
          filename == "img_" \o Sha1(raw) \o "."
                        \o ext_from_mime(DataUrlParts(request.fields.Image[1]).subtype)
      IN  /\ Len(calls) = 1
          /\ calls[1].action = "storeMediaFile"
          /\ calls[1].arg = filename
          /\ calls[1].data = B64Encode(raw)
          /\ results = << [index |-> request.note_index,
                           info |-> "data_url_saved:Image->" \o filename] >>
          /\ \A p \in 1..Len(fields.Image) :
               /\ fields.Image[p] \notin DataUrlTokens
               /\ fields.Image[p] # Base64Line

\* The names process_data_urls_in_fields gives the files it stores.
DataUrlFiles ==
    {FileOf([text |-> t]) :
       t \in {u \in DataUrlTokens : sanitize_image_payload(u).ok}}

\* The explicit images of the k-th note of the invocation and the schema
\* their target fields are resolved against.
ImagesOf(k) ==
    IF UpdateEntry THEN request.notes[k].images ELSE normalized_notes[k].images

SchemaOf(k) ==
    IF UpdateEntry THEN OwnSchema(NotesStore(NoteIds[k]))
    ELSE ModelSchema(NoteModel(normalized_notes[k]))

\* The target field of the image names a field of the schema, whatever the
\* case of the letters.
Resolves(im, schema) ==
    \E f \in 1..Len(schema) : Lower(schema[f]) = Lower(im.target_field)

\* The name image j of note k is stored under.
StoredAs(k, j, filename) ==
    LET im == ImagesOf(k)[j]
    IN  IF Truthy(im.filename) THEN filename = im.filename
        ELSE \E ext \in {"jpg", "png", "gif", "webp"} :
               filename = Uuid(k - 1, j - 1) \o "." \o ext

\* A turn of the loop over the explicit images of the current note whose
\* image names a target field outside the schema issues no storeMediaFile.
NoStoreForUnresolvedStep ==
    LET k == index + 1
        turn == \/ AddEntry /\ pc = "images" /\ img < Len(Note.images)
                \/ UpdateEntry /\ pc = "updImages" /\ img < Len(Update.images)
    IN  (turn /\ ~Resolves(ImagesOf(k)[img + 1], SchemaOf(k))) =>
          \A c \in (Len(calls) + 1)..Len(calls') :
            calls'[c].action # "storeMediaFile"

\* C28: in add_notes, add_from_model and update_notes storeMediaFile is
\* never issued for an explicit image whose target field does not resolve
\* to a field of the note's schema: every stored explicit image has a
\* resolved target field, so an unresolved target leaves no file behind.
C28_NoStoreForUnresolvedTarget ==
    /\ [][NoStoreForUnresolvedStep]_vars
    /\ []((AddEntry \/ UpdateEntry) =>
            \A c \in 1..Len(calls) :
              (calls[c].action = "storeMediaFile" /\ calls[c].arg \notin DataUrlFiles) =>
                \E j \in 1..Len(ImagesOf(calls[c].index + 1)) :
                  /\ StoredAs(calls[c].index + 1, j, calls[c].arg)
                  /\ Resolves(ImagesOf(calls[c].index + 1)[j],
                              SchemaOf(calls[c].index + 1)))

\* C28 witness: update_notes went past two images of a note, stored the one
\* bound for "front" and, having downloaded the one bound for "Nope",
\* stored nothing for it.
C28_Witness ==
    /\ UpdateEntry
    /\ outcome = "returned"
    /\ Len(request.notes) = 1
    /\ Len(request.notes[1].images) = 2
    /\ [c \in 1..Len(calls) |-> calls[c].action]
         = <<"notesInfo", "storeMediaFile", "fetchImage", "updateNoteFields">>
    /\ "unknown_target_field" \in WarningsOf(results[1])

\* The fields of the k-th note that a key of its patch names.
PatchedKeys(k) ==
    LET patch == request.notes[k].fields
        schema == OwnSchema(NotesStore(NoteIds[k]))
    IN  {schema[f] : f \in {g \in 1..Len(schema) :
                              \E i \in 1..Len(patch) :
                                Lower(patch[i].k) = Lower(schema[g])}}

\* The images of the k-th note bound for the field.
ImagesFor(k, field) ==
    {j \in 1..Len(request.notes[k].images) :
       Lower(request.notes[k].images[j].target_field) = Lower(field)}

\* The names image j of the k-th note may be stored under.
ImageNames(k, j) ==
    LET im == request.notes[k].images[j]
    IN  IF Truthy(im.filename) THEN {im.filename}
        ELSE {Uuid(k - 1, j - 1) \o "." \o ext :
                ext \in {"jpg", "png", "gif", "webp"}}

\* The updateNoteFields calls of the log.
FieldUpdates == {c \in 1..Len(calls) : calls[c].action = "updateNoteFields"}

\* The content notesInfo fetched for a field of the k-th note.
StoredContent(k, field) == UserGet(NotesStore(NoteIds[k]).fields, field)

\* C29 as stated: an attachment whose target field is not in the patch
\* never discards the stored content: the value sent for that field is the
\* content fetched by notesInfo, right-trimmed, followed by the img tag;
\* fields neither patched nor targeted by a stored attachment are absent
\* from the updateNoteFields call.
C29_AttachmentAppendsToStoredContent ==
    Fetched =>
      \A c \in FieldUpdates :
        LET k == calls[c].index + 1
        IN  \A field \in DOMAIN calls[c].data :
              /\ field \in PatchedKeys(k) \/ ImagesFor(k, field) # {}
              /\ (field \notin PatchedKeys(k)
                    /\ Cardinality(ImagesFor(k, field)) = 1) =>
                   \E j \in ImagesFor(k, field) : \E name \in ImageNames(k, j) :
                     calls[c].data[field]
                       = IF RStrip(StoredContent(k, field)) = <<>>
                         THEN <<build_img_tag(name)>>
                         ELSE RStrip(StoredContent(k, field))
                                \o <<"nn", build_img_tag(name)>>

\* C29 amended: an attachment whose target field is not in the patch never
\* discards the stored content: the value sent for that field starts with
\* the content fetched by notesInfo, right-trimmed; it is that content
\* followed by the img tag, or, when the content already references the
\* file, the content as it is.  Fields neither patched nor targeted by a
\* stored attachment are absent from the updateNoteFields call.
C29_AttachmentKeepsStoredContent ==
    Fetched =>
      \A c \in FieldUpdates :
        LET k == calls[c].index + 1
        IN  \A field \in DOMAIN calls[c].data :
              LET content == StoredContent(k, field)
                  value == calls[c].data[field]
              IN  /\ field \in PatchedKeys(k) \/ ImagesFor(k, field) # {}
                  /\ field \notin PatchedKeys(k) =>
                       /\ Len(value) >= Len(RStrip(content))
                       /\ SubSeq(value, 1, Len(RStrip(content))) = RStrip(content)
                  /\ (field \notin PatchedKeys(k)
                        /\ Cardinality(ImagesFor(k, field)) = 1) =>
                       \E j \in ImagesFor(k, field) : \E name \in ImageNames(k, j) :
                         LET tag == build_img_tag(name)
                         IN  value =
                               IF \E p \in 1..Len(content) : content[p] = tag
                               THEN content
                               ELSE IF RStrip(content) = <<>> THEN <<tag>>
                               ELSE RStrip(content) \o <<"nn", tag>>

\* C29 witness: pic.png was attached to Front of a note given no patch; the
\* call carries the fetched content of Front without its trailing blank,
\* then the tag, and nothing for Back.
C29_Witness ==
    /\ UpdateEntry
    /\ outcome = "returned"
    /\ NoteIds = <<"1">>
    /\ request.notes[1].fields = <<>>
    /\ StoredContent(1, "Front") = <<"Q", "s">>
    /\ \E c \in FieldUpdates :
         calls[c].data = [f \in {"Front"} |-> <<"Q", "nn", "img:pic.png">>]

\* The deleteNotes call of a delete_notes invocation came back and the
\* result was built.
DeleteReturned == request.entry = "delete_notes" /\ outcome = "returned"

\* What _consume counted in the response, before the normalisation.
Consumed == Counted(response.value, Len(request.note_ids))

\* C30: whatever the shape of the deleteNotes response (null, booleans,
\* counts, strings, nested lists or mappings, counts exceeding the request),
\* delete_notes returns deleted >= 0 and missing >= 0 whose sum is the
\* number of requested note ids.
C30_DeletedPlusMissingIsRequested ==
    DeleteReturned =>
        /\ results.deleted >= 0
        /\ results.missing >= 0
        /\ results.deleted + results.missing = Len(request.note_ids)

\* A response with a mapping in a list, in which more was counted than was
\* requested and the excess is larger than the missing count: deleted is
\* cut back and missing set to zero.
C30_Witness ==
    /\ DeleteReturned
    /\ response.value.kind = "list"
    /\ \E i \in 1..Len(response.value.items) :
         response.value.items[i].kind = "map"
    /\ Consumed.missing > 0
    /\ Consumed.deleted > Len(request.note_ids)
    /\ results.deleted = Len(request.note_ids)
    /\ results.missing = 0

====
